---- MODULE Spec2Model ----
(***************************************************************************)
(* PiGuard modem-command engine: ATCommandQueue (src/unnamed/part_011,     *)
(* imported as ./ATCommandQueue) and GSMModule (src/src/GSMModule.ts).     *)
(*                                                                         *)
(* Node.js runs one macrotask (I/O callback, timer, setImmediate) at a     *)
(* time and drains every promise continuation it makes runnable before the *)
(* next one.  Each action below is one macrotask together with the         *)
(* continuations it triggers; the code's functions are operators from a    *)
(* state record to a state record, composed in the order the code runs.    *)
(***************************************************************************)
EXTENDS Integers, Sequences, FiniteSets, TLC

\* ---------------------------------------------------------------- bounds
\* Config.atCommandRetry (AT_COMMAND_RETRY, default 3), scaled down.
maxRetries == 1
\* Config.phoneNumbers.length
NumRecipients == 2
\* public operations the callers start, in all
MaxOps == 2
\* fault events (close, error, timeout, write error, ERROR line, failed open)
MaxFaults == 1
\* lines the modem sends without a matching expectation between two writes
MaxBufLines == 1
\* add() calls in the specification of the queue alone
MaxQueueAdds == 3
\* ensurePortOpen's poll limit (50 polls of 100 ms in the source), scaled down
MaxWaitCount == 2
\* fault events in the specification of one reconnect: the close that starts
\* it and the timeouts of its init commands
MaxReconnectFaults == 4
\* steps in the specification of the diagnostics record
MaxDiagSteps == 4
\* responses in the specification of the signal report
MaxSignalSteps == 1
\* Config.smsCooldownPeriod (SMS_COOLDOWN_PERIOD, default 300000 ms), in
\* units of the clock, scaled down
smsCooldownPeriod == 3
\* the last instant of the clock in the specification of the front panel
MaxTime == 5
\* 'pressed' events of switch 2 in the specification of the front panel
MaxPresses == 2

\* ------------------------------------------------------------- constants
MAX_RECONNECT_ATTEMPTS == 3
\* FrontPanel.LONG_PRESS_THRESHOLD_MS (2000), in units of the clock: 1000 ms
LONG_PRESS_THRESHOLD_MS == 2
InitCommands ==
    <<"AT", "ATE0", "AT+CMGF=1", "AT+CNMI=1,2,0,0,0", "AT+CSCS=\"GSM\"">>
\* The tests of performConnectionTest, each with a line the modem answers.
Probes ==
    <<[command |-> "AT+CPIN?", expectedResponse |-> "+CPIN:",
       reply |-> "+CPIN: READY"],
      [command |-> "AT+CMGF?", expectedResponse |-> "+CMGF:",
       reply |-> "+CMGF: 1"],
      [command |-> "AT+CREG?", expectedResponse |-> "+CREG:",
       reply |-> "+CREG: 0,1"],
      [command |-> "AT+CSQ", expectedResponse |-> "+CSQ:",
       reply |-> "+CSQ: 20,0"],
      [command |-> "AT+CSCA?", expectedResponse |-> "+CSCA:",
       reply |-> "+CSCA: \"+48601000310\",145"],
      [command |-> "AT+COPS?", expectedResponse |-> "+COPS:",
       reply |-> "+COPS: 0,0,\"Operator\""]>>

NULL == 0

Callers == {1, 2}
\* Names of the CommandObjects and of the processNext activations.  An object
\* has no name in the program: a command of caller k takes a free name among
\* SlotsOf(k), a command of the queue's own specification the next number, a
\* drain the first free name.
SlotsPerCaller == 3
SlotsOf(k) == {k + n * Cardinality(Callers) : n \in 0..(SlotsPerCaller - 1)}
MaxCmds ==
    IF MaxQueueAdds > SlotsPerCaller * Cardinality(Callers)
    THEN MaxQueueAdds
    ELSE SlotsPerCaller * Cardinality(Callers)
CmdIds == 1..MaxCmds
Drains == {100 + i : i \in 1..MaxCmds}
Tasks == Callers \cup Drains

VARIABLES
    queue,              \* ATCommandQueue.queue
    processing,         \* ATCommandQueue.processing
    currentCommand,     \* ATCommandQueue.currentCommand
    executor,           \* ATCommandQueue.executor
    cmds,               \* the CommandObjects created by add()
    nextCmd,            \* the next number for a command of QAdd
    portExists,         \* GSMModule.port !== null
    portOpen,           \* GSMModule.port.isOpen
    isReady,            \* GSMModule.isReady
    isReconnecting,     \* GSMModule.isReconnecting
    reconnectAttempts,  \* GSMModule.reconnectAttempts
    pendingCommand,     \* GSMModule.pendingCommand (the task that owns it)
    timer,              \* live setTimeout handles of the command timeouts
    responseBuffer,     \* GSMModule.responseBuffer, as a sequence of lines
    task,               \* the async activations: callers and processNext drains
    faults,             \* number of fault events so far
    lifecycle,          \* history: how far initialize() has come
    opsStarted,         \* number of operations started after initialize()
    linkLost,           \* history: closed unexpectedly and not yet reinitialized
    wire,               \* history: the last write to the serial port
    owed,               \* history: the token of a response that is late
    diagnostics,        \* GSMModule.diagnostics
    heap,               \* the objects parseCREG and parseCSQ have created
    snapshot,           \* the value a caller got from getDiagnostics()
    held,               \* a caller holds such a value
    diagSteps,          \* number of steps on the diagnostics so far
    panel,              \* the fields of PiGuard and of its FrontPanel
    world               \* the clock, the key switch, and the history of both

engineVars == <<queue, processing, currentCommand, executor, cmds, nextCmd,
                portExists, portOpen, isReady, isReconnecting,
                reconnectAttempts, pendingCommand, timer, responseBuffer,
                task, faults, lifecycle, opsStarted, linkLost, wire,
                owed>>

diagVars == <<diagnostics, heap, snapshot, held, diagSteps>>

panelVars == <<panel, world>>

vars == <<engineVars, diagVars, panelVars>>

\* The state as one record, so that the code's functions compose; micro is
\* the microtask queue, empty between two macrotasks.
S ==
    [queue |-> queue, processing |-> processing,
     currentCommand |-> currentCommand, executor |-> executor, cmds |-> cmds,
     nextCmd |-> nextCmd,
     portExists |-> portExists, portOpen |-> portOpen, isReady |-> isReady,
     isReconnecting |-> isReconnecting,
     reconnectAttempts |-> reconnectAttempts,
     pendingCommand |-> pendingCommand, timer |-> timer,
     responseBuffer |-> responseBuffer, task |-> task, faults |-> faults,
     lifecycle |-> lifecycle, opsStarted |-> opsStarted,
     linkLost |-> linkLost, wire |-> wire, owed |-> owed, micro |-> <<>>]

\* CommandObject (src/unnamed/part_007) with the state of the promise that
\* add() returned: promise, the value or error it settled with, the number of
\* resolve/reject calls made on it, and the number of times it was handed to
\* the executor.  A value is the sequence of the lines
\* of the response, an error the one-element sequence of its message.
NewCommand(command, expected, owner) ==
    [promise |-> "pending", result |-> <<>>, settles |-> 0, retries |-> 0,
     executions |-> 0, command |-> command, expectedResponse |-> expected,
     owner |-> owner]

NoCommand ==
    [promise |-> "none", result |-> <<>>, settles |-> 0, retries |-> 0,
     executions |-> 0, command |-> "", expectedResponse |-> "OK", owner |-> NULL]

\* An activation record: where the async function is suspended (pc), the
\* operation it runs (op), its loop index (idx), sendToAll's results, how the
\* operation ended (outcome) and the error it threw, and the locals of
\* ensurePortOpen and reconnect;
\* turns counts the turns of reconnect's while loop in the running call;
\* behind holds the callers whose sendCommand was called before this caller's
\* and whose command has been neither dispatched nor settled since.
IdleTask ==
    [pc |-> "idle", cmd |-> NULL, ctx |-> "none", op |-> "none", idx |-> 0,
     results |-> <<>>, outcome |-> "none", waitCount |-> 0,
     initialAttempts |-> 0, attemptNumber |-> 0, step |-> 0,
     orphan |-> FALSE, turns |-> 0, behind |-> {}, error |-> <<>>]

\* A CommandObject or an activation that nothing refers to any more is
\* garbage: a settled command that is neither queued, nor currentCommand, nor
\* the argument of a running executor call; an async call that has ended.
Referenced(s, c) ==
    \/ \E i \in 1..Len(s.queue) : s.queue[i] = c
    \/ s.currentCommand = c
    \/ \E t \in Tasks :
           s.task[t].cmd = c /\ s.task[t].pc \notin {"idle", "done", "dead"}

\* The step to state s.  The value or error a promise settled with is kept for
\* the state that follows the settlement, where its awaiter has consumed it;
\* what was garbage before the step is collected.  The diagnostics record has
\* its own specification (SpecDiagnostics) and is left alone here.
Becomes(s) ==
    /\ queue' = s.queue
    /\ processing' = s.processing
    /\ currentCommand' = s.currentCommand
    /\ executor' = s.executor
    /\ cmds' = [c \in CmdIds |->
                   IF cmds[c].promise \in {"resolved", "rejected"}
                   THEN IF Referenced(s, c)
                        THEN [s.cmds[c] EXCEPT !.result = <<>>]
                        ELSE NoCommand
                   ELSE s.cmds[c]]
    /\ nextCmd' = s.nextCmd
    /\ portExists' = s.portExists
    /\ portOpen' = s.portOpen
    /\ isReady' = s.isReady
    /\ isReconnecting' = s.isReconnecting
    /\ reconnectAttempts' = s.reconnectAttempts
    /\ pendingCommand' = s.pendingCommand
    /\ timer' = s.timer
    /\ responseBuffer' = s.responseBuffer
    /\ task' = [t \in Tasks |->
                   IF t \in Drains /\ task[t].pc \in {"done", "dead"}
                   THEN IdleTask
                   ELSE s.task[t]]
    /\ faults' = s.faults
    /\ lifecycle' = s.lifecycle
    /\ opsStarted' = s.opsStarted
    /\ linkLost' = s.linkLost
    /\ wire' = s.wire
    /\ owed' = s.owed
    /\ UNCHANGED <<diagVars, panelVars>>

Min(a, b) == IF a < b THEN a ELSE b

\* ------------------------------------------------------------------ lines
\* A received line: its text, whether it includes "ERROR" or "FAIL", and the
\* expected tokens it includes.
OkLine == [text |-> "OK", hasError |-> FALSE, tokens |-> {"OK"}]
ErrorLine == [text |-> "+CMS ERROR: 500", hasError |-> TRUE, tokens |-> {}]
ErrorOkLine == [text |-> "ERROR: NOT OK", hasError |-> TRUE, tokens |-> {"OK"}]
PromptLine == [text |-> ">", hasError |-> FALSE, tokens |-> {">"}]
\* A line of white space only: data.trim() is the empty string.
EmptyLine == [text |-> "", hasError |-> FALSE, tokens |-> {}]
ProbeLines ==
    {[text |-> Probes[i].reply, hasError |-> FALSE,
      tokens |-> {Probes[i].expectedResponse}] : i \in 1..Len(Probes)}
Lines == {OkLine, ErrorLine, ErrorOkLine, PromptLine, EmptyLine} \cup ProbeLines
\* Lines received while nothing is pending only grow the buffer, which the
\* next write resets: the prompt stands for all of them.
UnsolicitedLines == {PromptLine}

PortIsOpen(s) == s.portExists /\ s.portOpen

\* The expectedResponse of the command task t executes: a drain executes its
\* CommandObject, a caller the SMS body, a reconnect an init command.
ExpectedOf(s, t) ==
    IF t \in Drains /\ s.task[t].pc # "r_init"
    THEN s.cmds[s.task[t].cmd].expectedResponse
    ELSE "OK"

WriteKind(s, t) == IF t \in Drains THEN "queue" ELSE "body"

\* Config.phoneNumbers
PhoneNumbers == [i \in 1..NumRecipients |-> 600100100 + i]

CmgsCommand(i) == "AT+CMGS=\"" \o ToString(PhoneNumbers[i]) \o "\""

\* message + String.fromCharCode(26)
BodyCommand == "message<CTRL+Z>"

\* The command and expectedResponse caller k passes to sendCommand: a step of
\* initialize, a test of performConnectionTest, or sendSMS's AT+CMGS.
CallerCommand(s, k) ==
    LET op == s.task[k].op
        i  == s.task[k].idx
    IN  IF op = "sms"
        THEN [command |-> CmgsCommand(i), expectedResponse |-> "null"]
        ELSE IF op = "init" /\ i <= Len(InitCommands)
        THEN [command |-> InitCommands[i], expectedResponse |-> "OK"]
        ELSE LET j == IF op = "init" THEN i - Len(InitCommands) ELSE i
             IN  [command |-> Probes[j].command,
                  expectedResponse |-> Probes[j].expectedResponse]

\* The text task t writes: a drain its CommandObject's, a caller the body.
CommandOfWrite(s, t) ==
    IF t \in Drains THEN s.cmds[s.task[t].cmd].command ELSE BodyCommand

\* The public operation of caller k returns or throws.
Return(s, k, outcome) ==
    [s EXCEPT !.task[k].pc = "idle", !.task[k].outcome = outcome,
              !.task[k].cmd = NULL]

\* The locals of ensurePortOpen and of reconnect, when the call has ended.
EndEnsure(s, t) ==
    [s EXCEPT !.task[t].ctx = "none", !.task[t].waitCount = 0,
              !.task[t].initialAttempts = 0, !.task[t].attemptNumber = 0,
              !.task[t].step = 0, !.task[t].orphan = FALSE,
              !.task[t].turns = 0]

\* ------------------------------------------------------------- microtasks
\* A settled promise queues the continuation of its awaiter as a microtask;
\* the microtasks run in order, to the end, before the next macrotask.
\*   exec   : the promise of the command task t executes (executeATCommand,
\*            executeATCommandDirectly or the executor) settled
\*   caller : the promise sendCommand returned to caller t settled
\*   ensure : ensurePortOpen returned (ok) or threw in task t
Job(kind, t, ok, detail) ==
    [kind |-> kind, t |-> t, ok |-> ok, detail |-> detail]

Push(s, j) == [s EXCEPT !.micro = Append(@, j)]

\* cmd.resolve(value) / cmd.reject(error): the first call settles the promise
\* and makes the caller that awaits it runnable, a later call changes nothing.
SettlePromise(s, c, how, detail) ==
    LET s1 == [s EXCEPT !.cmds[c] =
                  IF @.promise = "pending"
                  THEN [@ EXCEPT !.promise = how, !.result = detail,
                                 !.settles = 1]
                  ELSE [@ EXCEPT !.settles = Min(@ + 1, 2)]]
    IN  IF s.cmds[c].promise = "pending" /\ s.cmds[c].owner # NULL
        THEN Push(s1, Job("caller", s.cmds[c].owner, how = "resolved", detail))
        ELSE s1

\* ---------------------------------------------------------------- writes
\* The promise body of executeATCommand and of executeATCommandDirectly: reset
\* the buffer, write; with an expected response, arm the timeout and replace
\* pendingCommand.
\* dataToWrite with the terminator appended always.
DataToWriteAlwaysCRLF(command, skipCRLF) == command \o "\r\n"

\* dataToWrite: executeATCommand appends CRLF unless skipCRLF, which only
\* sendSMS sets, for the body; executeATCommandDirectly appends it always.
DataToWrite(command, skipCRLF) ==
    IF skipCRLF THEN command ELSE command \o "\r\n"

WriteCommandAlwaysAwaits(s, t, command, expected, kind, pcAfter) ==
    [s EXCEPT !.responseBuffer = <<>>,
              !.wire = [kind |-> kind, command |-> command,
                        data |-> DataToWrite(command, kind = "body"),
                        busy |-> s.pendingCommand # NULL,
                        linkLost |-> s.linkLost],
              !.timer[t] = TRUE, !.pendingCommand = t,
              !.task[t].pc = pcAfter]

WriteCommand(s, t, command, expected, kind, pcAfter) ==
    LET s1 == [s EXCEPT !.responseBuffer = <<>>,
                        !.wire = [kind |-> kind, command |-> command,
                                  data |-> DataToWrite(command, kind = "body"),
                                  busy |-> s.pendingCommand # NULL,
                                  linkLost |-> s.linkLost]]
    IN  IF expected = "null"
        THEN [s1 EXCEPT !.task[t].pc = "x_ack"]
        ELSE [s1 EXCEPT !.timer[t] = TRUE, !.pendingCommand = t,
                        !.task[t].pc = pcAfter]

\* ------------------------------------------------------- ATCommandQueue
RECURSIVE RejectAll(_, _)
RejectAll(s, q) ==
    IF q = <<>> THEN s
    ELSE RejectAll(SettlePromise(s, Head(q), "rejected", <<"Queue cleared">>),
                   Tail(q))

clear(s) ==
    [RejectAll(s, s.queue) EXCEPT !.queue = <<>>, !.processing = FALSE,
                                  !.currentCommand = NULL]

\* ------------------------------------------------- the port's handlers
\* The "close" handler without its assignment to isReady.
onCloseEventKeepsReady(s) ==
    LET p  == s.pendingCommand
        s1 == [s EXCEPT !.portOpen = FALSE,
                        !.isReconnecting = FALSE, !.reconnectAttempts = 0]
        s2 == IF p # NULL
              THEN Push([s1 EXCEPT !.timer[p] = FALSE,
                                   !.pendingCommand = NULL],
                        Job("exec", p, FALSE,
                            <<"Serial port closed during command execution">>))
              ELSE s1
    IN  clear(s2)

\* The port's "close" handler.
onCloseEvent(s) ==
    LET p  == s.pendingCommand
        s1 == [s EXCEPT !.portOpen = FALSE, !.isReady = FALSE,
                        !.isReconnecting = FALSE, !.reconnectAttempts = 0]
        s2 == IF p # NULL
              THEN Push([s1 EXCEPT !.timer[p] = FALSE,
                                   !.pendingCommand = NULL],
                        Job("exec", p, FALSE,
                            <<"Serial port closed during command execution">>))
              ELSE s1
    IN  clear(s2)

\* The port's "error" handler.
onErrorEvent(s) ==
    LET p  == s.pendingCommand
        s1 == [s EXCEPT !.isReady = FALSE]
    IN  IF p # NULL
        THEN Push([s1 EXCEPT !.timer[p] = FALSE, !.pendingCommand = NULL],
                  Job("exec", p, FALSE, <<"Serial port error">>))
        ELSE s1

\* ------------------------------------------------------------- reconnect
\* The turns of the loop are counted up to one more than the loop's limit.
MaxTurns == MAX_RECONNECT_ATTEMPTS + 1

\* One turn of reconnect()'s while loop, up to the call of port.open(); after
\* the loop, the final throw.
reconnectLoop(s, t) ==
    IF s.reconnectAttempts - s.task[t].initialAttempts < MAX_RECONNECT_ATTEMPTS
    THEN LET n  == s.reconnectAttempts + 1
             s1 == [s EXCEPT !.reconnectAttempts = n,
                             !.task[t].attemptNumber =
                                 n - s.task[t].initialAttempts]
             s2 == IF PortIsOpen(s1) THEN onCloseEvent(s1) ELSE s1
         IN  [s2 EXCEPT !.portExists = TRUE, !.portOpen = FALSE,
                        !.task = [u \in Tasks |->
                            IF u = t
                            THEN [s2.task[u] EXCEPT !.pc = "r_open",
                                                    !.orphan = FALSE,
                                                    !.turns =
                                                        Min(@ + 1,
                                                            MaxTurns)]
                            ELSE IF s2.task[u].pc = "r_open"
                            THEN [s2.task[u] EXCEPT !.orphan = TRUE]
                            ELSE s2.task[u]]]
    ELSE Push([s EXCEPT !.isReconnecting = FALSE],
              Job("ensure", t, FALSE, <<"Failed to reconnect serial port">>))

reconnect(s, t) ==
    IF s.isReconnecting
    THEN Push(s, Job("ensure", t, TRUE, <<>>))
    ELSE reconnectLoop([s EXCEPT !.isReconnecting = TRUE,
                                 !.task[t].initialAttempts =
                                     s.reconnectAttempts], t)

\* The catch block of a reconnect attempt.
reconnectCatch(s, t) ==
    IF s.task[t].attemptNumber >= MAX_RECONNECT_ATTEMPTS
    THEN Push([s EXCEPT !.isReconnecting = FALSE, !.reconnectAttempts = 0],
              Job("ensure", t, FALSE, <<"Failed to reconnect serial port">>))
    ELSE [s EXCEPT !.task[t].pc = "r_backoff"]

executeATCommandDirectly(s, t, step) ==
    IF ~PortIsOpen(s)
    THEN reconnectCatch(s, t)
    ELSE WriteCommand([s EXCEPT !.task[t].step = step], t,
                      InitCommands[step], "OK", "init", "r_init")

\* reconnect ready after its first init command.
reconnectInitSettledFirstOnly(s, t, ok) ==
    IF ~ok
    THEN reconnectCatch(s, t)
    ELSE Push([s EXCEPT !.isReady = TRUE, !.reconnectAttempts = 0,
                        !.isReconnecting = FALSE, !.linkLost = FALSE],
              Job("ensure", t, TRUE, <<>>))

\* reconnect after one of its init commands settled.
reconnectInitSettled(s, t, ok) ==
    IF ~ok
    THEN reconnectCatch(s, t)
    ELSE IF s.task[t].step < Len(InitCommands)
    THEN executeATCommandDirectly(s, t, s.task[t].step + 1)
    ELSE Push([s EXCEPT !.isReady = TRUE, !.reconnectAttempts = 0,
                        !.isReconnecting = FALSE, !.linkLost = FALSE],
              Job("ensure", t, TRUE, <<>>))

\* ensurePortOpen up to its first suspension, for sendCommand (ctx "submit")
\* or executeATCommand (ctx "exec"); the caller awaits it in either case.
ensurePortOpen(s, t, ctx) ==
    IF PortIsOpen(s)
    THEN Push([s EXCEPT !.task[t].pc = "go", !.task[t].ctx = ctx],
              Job("ensure", t, TRUE, <<>>))
    ELSE IF s.isReconnecting
    THEN [s EXCEPT !.task[t].pc = "poll", !.task[t].ctx = ctx,
                   !.task[t].waitCount = 0]
    ELSE reconnect([s EXCEPT !.task[t].pc = "go", !.task[t].ctx = ctx], t)

\* ------------------------------------------------- executeATCommand, queue
\* executeATCommand after ensurePortOpen returned.
executeWrite(s, t) ==
    IF ~PortIsOpen(s)
    THEN Push(s, Job("exec", t, FALSE, <<"Serial port not open">>))
    ELSE WriteCommand(s, t, CommandOfWrite(s, t), ExpectedOf(s, t),
                      WriteKind(s, t), "x_resp")

executeATCommand(s, t) == ensurePortOpen(s, t, "exec")

\* executeCommand: the executor GSMModule's constructor sets, or any other.
executeCommand(s, d, c) ==
    IF s.executor = "gsm"
    THEN executeATCommand([s EXCEPT !.task[d].cmd = c], d)
    ELSE [s EXCEPT !.task[d].cmd = c, !.task[d].pc = "exec"]

\* Caller k's submission is over: its command is dispatched, or the promise
\* of sendCommand has settled.
SubmissionOver(s, k) ==
    [s EXCEPT !.task = [t \in Tasks |->
                           [s.task[t] EXCEPT !.behind = IF t = k THEN {}
                                                        ELSE @ \ {k}]]]

\* processNext up to its await.
processNext(s, d) ==
    IF s.queue = <<>>
    THEN [s EXCEPT !.processing = FALSE, !.currentCommand = NULL,
                   !.task[d].pc = "done"]
    ELSE LET c  == Head(s.queue)
             s1 == [s EXCEPT !.processing = TRUE, !.currentCommand = c,
                             !.queue = Tail(s.queue),
                             !.cmds[c].executions = @ + 1]
         IN  executeCommand(
                 IF s.cmds[c].owner # NULL /\ s.cmds[c].executions = 0
                 THEN [s1 EXCEPT !.task =
                          [t \in Tasks |->
                              [s1.task[t] EXCEPT !.behind =
                                                     @ \ {s.cmds[c].owner}]]]
                 ELSE s1, d, c)

\* A name is free when its object was garbage before this step began.
NewId(s, owner) ==
    IF owner = NULL
    THEN s.nextCmd
    ELSE LET free == {c \in SlotsOf(owner) :
                         cmds[c] = NoCommand /\ s.cmds[c] = NoCommand}
         IN  CHOOSE c \in free : \A c2 \in free : c <= c2

NewDrain(s) ==
    LET free == {d \in Drains : task[d] = IdleTask /\ s.task[d] = IdleTask}
    IN  CHOOSE d \in free : \A d2 \in free : d <= d2

\* add(): the caller that awaits the returned promise is suspended on it.
add(s, command, expected, owner) ==
    LET c  == NewId(s, owner)
        s0 == IF owner = NULL
              THEN [s EXCEPT !.nextCmd = c + 1]
              ELSE [s EXCEPT !.task[owner].pc = "await",
                             !.task[owner].cmd = c]
        s1 == [s0 EXCEPT !.cmds[c] = NewCommand(command, expected, owner),
                         !.queue = Append(s.queue, c)]
    IN  IF ~s1.processing THEN processNext(s1, NewDrain(s1)) ELSE s1

\* drainResume with the retry test off by one (retries <= maxRetries).
drainResumeRetryOnceMore(s, d, ok, detail) ==
    LET cur == s.currentCommand
        s1  == [s EXCEPT !.task[d].pc = "immediate", !.task[d].cmd = NULL]
    IN  IF cur = NULL
        THEN [s EXCEPT !.task[d].pc = "dead"]
        ELSE IF ok
        THEN SettlePromise(s1, cur, "resolved", detail)
        ELSE IF s.cmds[cur].retries <= maxRetries
        THEN [s1 EXCEPT !.cmds[cur].retries = @ + 1,
                        !.queue = <<cur>> \o s.queue]
        ELSE SettlePromise(s1, cur, "rejected", detail)

\* processNext after its await: lines 50-51 or the catch block, then
\* setImmediate.  this.currentCommand is read again here; when it is null the
\* property access throws inside the catch block too and processNext ends.
drainResume(s, d, ok, detail) ==
    LET cur == s.currentCommand
        s1  == [s EXCEPT !.task[d].pc = "immediate", !.task[d].cmd = NULL]
    IN  IF cur = NULL
        THEN [s EXCEPT !.task[d].pc = "dead"]
        ELSE IF ok
        THEN SettlePromise(s1, cur, "resolved", detail)
        ELSE IF s.cmds[cur].retries < maxRetries
        THEN [s1 EXCEPT !.cmds[cur].retries = @ + 1,
                        !.queue = <<cur>> \o s.queue]
        ELSE SettlePromise(s1, cur, "rejected", detail)

\* ------------------------------------------------------------ GSMModule
\* Caller j has called sendCommand and its command is not dispatched yet.
InSubmission(s, j) ==
    \/ s.task[j].ctx = "submit"
    \/ /\ s.task[j].pc = "await"
       /\ s.cmds[s.task[j].cmd].executions = 0

\* sendCommand up to its await of ensurePortOpen.
sendCommand(s, k) ==
    ensurePortOpen(
        [s EXCEPT !.task[k].behind =
                      {j \in Callers \ {k} : InSubmission(s, j)}], k, "submit")

\* sendCommand after ensurePortOpen returned: the second port check, then add.
sendCommandAdd(s, k) ==
    IF ~PortIsOpen(s)
    THEN Push(s, Job("caller", k, FALSE, <<"Serial port not open">>))
    ELSE add(s, CallerCommand(s, k).command,
             CallerCommand(s, k).expectedResponse, k)

\* results.push(...) of sendToAll, and the step of its for loop.
pushResult(s, k, ok, detail) ==
    [s EXCEPT !.task[k].results =
                  Append(@, [recipient |-> s.task[k].idx, success |-> ok,
                             error |-> detail]),
              !.task[k].idx = @ + 1]

\* sendToAll whose sendSMS does not test isReady before its first command.
sendToAllFromUnguarded(s, k) ==
    IF s.task[k].idx > NumRecipients
    THEN Return(s, k, "returned")
    ELSE sendCommand(s, k)

\* sendToAll from recipient task[k].idx on: sendSMS up to its first await, the
\* catch of the for loop, and the final return.
RECURSIVE sendToAllFrom(_, _)
sendToAllFrom(s, k) ==
    IF s.task[k].idx > NumRecipients
    THEN Return(s, k, "returned")
    ELSE IF ~s.isReady
    THEN sendToAllFrom(pushResult(s, k, FALSE, <<"GSM module not ready">>), k)
    ELSE sendCommand(s, k)

\* The caller's continuation when the promise of sendCommand settles: sendSMS
\* inside sendToAll's loop, performConnectionTest's loop, or initialize (its
\* five commands, then performConnectionTest, then isReady = true).
callerCmdSettled(s0, k, ok, detail) ==
    LET s    == SubmissionOver(s0, k)
        op   == s.task[k].op
        last == IF op = "init" THEN Len(InitCommands) + Len(Probes)
                ELSE Len(Probes)
    IN  IF op = "sms"
        THEN IF ok
             THEN [s EXCEPT !.task[k].pc = "settle"]
             ELSE sendToAllFrom(pushResult(s, k, FALSE, detail), k)
        ELSE IF ~ok
        THEN [Return(s, k, "threw")
                 EXCEPT !.lifecycle = IF op = "init" THEN "failed" ELSE @,
                        !.task[k].error = detail]
        ELSE IF s.task[k].idx < last
        THEN sendCommand([s EXCEPT !.task[k].idx = @ + 1], k)
        ELSE IF op = "init"
        THEN [Return(s, k, "returned")
                 EXCEPT !.isReady = TRUE, !.lifecycle = "initialized"]
        ELSE Return(s, k, "returned")

\* sendSMS's continuation when the body's executeATCommand settles.
callerBodySettled(s, k, ok, detail) ==
    sendToAllFrom(pushResult(s, k, ok, IF ok THEN <<>> ELSE detail), k)

\* close(): clear the queue, close the port (which emits "close").
close(s) ==
    LET s1 == clear(s)
        s2 == IF PortIsOpen(s1) THEN onCloseEvent(s1) ELSE s1
    IN  [s2 EXCEPT !.isReady = FALSE]

\* ----------------------------------------------------- the continuations
\* The promise of the command task t executes settled: the continuation of
\* whoever awaits it (reconnect, processNext or sendSMS).
execSettled(s, t, ok, detail) ==
    IF s.task[t].pc = "r_init"
    THEN reconnectInitSettled(s, t, ok)
    ELSE IF t \in Drains
    THEN drainResume(s, t, ok, detail)
    ELSE callerBodySettled(s, t, ok, detail)

\* ensurePortOpen returned: its locals and those of reconnect are gone, and
\* sendCommand or executeATCommand goes on.
ensureReturn(s, t) ==
    IF s.task[t].ctx = "submit"
    THEN sendCommandAdd(EndEnsure(s, t), t)
    ELSE executeWrite(EndEnsure(s, t), t)

\* ensurePortOpen threw: sendCommand or executeATCommand rejects.
ensureThrow(s, t, detail) ==
    IF s.task[t].ctx = "submit"
    THEN callerCmdSettled(EndEnsure(s, t), t, FALSE, detail)
    ELSE execSettled(EndEnsure(s, t), t, FALSE, detail)

\* ensurePortOpenPoll returning when its loop ends, without the test of the
\* port that follows the loop.
ensurePortOpenPollNoTest(s, t) ==
    LET s1 == [s EXCEPT !.task[t].waitCount = @ + 1]
    IN  IF PortIsOpen(s1)
        THEN ensureReturn(s1, t)
        ELSE IF s1.isReconnecting /\ s1.task[t].waitCount < MaxWaitCount
        THEN s1
        ELSE ensureReturn(s1, t)

\* ensurePortOpen's wait loop when a delay(100) ends: waitCount++, return if
\* the port is open, go on while isReconnecting and waitCount < 50; after
\* the loop, throw unless the port is open.
ensurePortOpenPoll(s, t) ==
    LET s1 == [s EXCEPT !.task[t].waitCount = @ + 1]
    IN  IF PortIsOpen(s1)
        THEN ensureReturn(s1, t)
        ELSE IF s1.isReconnecting /\ s1.task[t].waitCount < MaxWaitCount
        THEN s1
        ELSE ensureThrow(s1, t, <<"Serial port reconnection timeout">>)

RunJob(s, j) ==
    IF j.kind = "exec" THEN execSettled(s, j.t, j.ok, j.detail)
    ELSE IF j.kind = "caller" THEN callerCmdSettled(s, j.t, j.ok, j.detail)
    ELSE IF j.ok THEN ensureReturn(s, j.t)
    ELSE ensureThrow(s, j.t, j.detail)

\* Run the microtasks until none is left.
RECURSIVE RunAll(_)
RunAll(s) ==
    IF s.micro = <<>> THEN s
    ELSE RunAll(RunJob([s EXCEPT !.micro = Tail(@)], Head(s.micro)))

\* One macrotask took the state to s: the microtasks run, and the result is
\* the next state.
Step(s) == Becomes(RunAll(s))

\* ------------------------------------------------------- handleResponse
Includes(line, token) == token \in line.tokens

\* handleResponse with the expected token tested before the error tokens.
handleResponseTokenFirst(s, line) ==
    LET s1 == [s EXCEPT !.responseBuffer = Append(@, line.text)]
        p  == s.pendingCommand
    IN  IF p = NULL
        THEN s1
        ELSE IF Includes(line, ExpectedOf(s, p))
        THEN Push([s1 EXCEPT !.timer[p] = FALSE, !.responseBuffer = <<>>,
                             !.pendingCommand = NULL],
                  Job("exec", p, TRUE, s1.responseBuffer))
        ELSE IF line.hasError
        THEN Push([s1 EXCEPT !.timer[p] = FALSE, !.pendingCommand = NULL],
                  Job("exec", p, FALSE, <<line.text>>))
        ELSE s1

\* handleResponse without the test for the error tokens.
handleResponseNoErrorTest(s, line) ==
    LET s1 == [s EXCEPT !.responseBuffer = Append(@, line.text)]
        p  == s.pendingCommand
    IN  IF p = NULL
        THEN s1
        ELSE IF Includes(line, ExpectedOf(s, p))
        THEN Push([s1 EXCEPT !.timer[p] = FALSE, !.responseBuffer = <<>>,
                             !.pendingCommand = NULL],
                  Job("exec", p, TRUE, s1.responseBuffer))
        ELSE s1

\* handleResponse resolving with the matching line alone.
handleResponseLastLine(s, line) ==
    LET s1 == [s EXCEPT !.responseBuffer = Append(@, line.text)]
        p  == s.pendingCommand
    IN  IF line.text = ""
        THEN s
        ELSE IF p = NULL
        THEN s1
        ELSE IF line.hasError
        THEN Push([s1 EXCEPT !.timer[p] = FALSE, !.pendingCommand = NULL],
                  Job("exec", p, FALSE, <<line.text>>))
        ELSE IF Includes(line, ExpectedOf(s, p))
        THEN Push([s1 EXCEPT !.timer[p] = FALSE, !.responseBuffer = <<>>,
                             !.pendingCommand = NULL],
                  Job("exec", p, TRUE, <<line.text>>))
        ELSE s1

handleResponse(s, line) ==
    LET s1 == [s EXCEPT !.responseBuffer = Append(@, line.text)]
        p  == s.pendingCommand
    IN  IF line.text = ""
        THEN s
        ELSE IF p = NULL
        THEN s1
        ELSE IF ExpectedOf(s, p) = "null"
        THEN s1
        ELSE IF line.hasError
        THEN Push([s1 EXCEPT !.timer[p] = FALSE, !.pendingCommand = NULL],
                  Job("exec", p, FALSE, <<line.text>>))
        ELSE IF Includes(line, ExpectedOf(s, p))
        THEN Push([s1 EXCEPT !.timer[p] = FALSE, !.responseBuffer = <<>>,
                             !.pendingCommand = NULL],
                  Job("exec", p, TRUE, s1.responseBuffer))
        ELSE IF ExpectedOf(s, p) = ">" /\ line.text = ">"
        THEN Push([s1 EXCEPT !.timer[p] = FALSE, !.pendingCommand = NULL],
                  Job("exec", p, TRUE, <<">">>))
        ELSE s1

\* The timeout callback without the reset of pendingCommand.
onTimeoutKeepsPending(s, t) ==
    Push([s EXCEPT !.timer[t] = FALSE, !.owed = ExpectedOf(s, t)],
         Job("exec", t, FALSE, <<"Command timeout">>))

\* The timeout callback of task t's command; the modem may still answer it.
onTimeout(s, t) ==
    Push([s EXCEPT !.timer[t] = FALSE, !.pendingCommand = NULL,
                   !.owed = ExpectedOf(s, t)],
         Job("exec", t, FALSE, <<"Command timeout">>))

\* port.write's callback with an error.
onWriteError(s, t) ==
    IF s.task[t].pc = "x_ack"
    THEN Push(s, Job("exec", t, FALSE, <<"Failed to write command">>))
    ELSE Push([s EXCEPT !.timer[t] = FALSE, !.pendingCommand = NULL],
              Job("exec", t, FALSE, <<"Failed to write command">>))

\* ------------------------------------------------- PiGuard and FrontPanel
\* Config.gpioPins, two of its three triggers
TriggerKeys == {"trigger1", "trigger2"}
\* Config.disableAlertSMS (DISABLE_ALERT_SMS is not set)
disableAlertSMS == FALSE

\* The fields of PiGuard (activeTriggers, lastAlertTime, alertsDisabled) and
\* of FrontPanel (currentLedState, switch1PreviousState and the three fields
\* of switch 2).  A number that may be null is a sequence of at most one
\* element.  phase is the position of PiGuard.initialize: "constructed",
\* "triggers" while it awaits setupTriggers with the watchers of the switches
\* already set, "running" after setupFrontPanelHandlers; handlers tells that
\* the four handlers of the switches are registered.  timeouts are the timers
\* handleSwitch2Pressed has created, switch2LongPressTimeout the index of the
\* one the field refers to.  alertCalls, shortPresses and longPresses count
\* the calls of sendToAll by handleTrigger and of the two handlers of
\* switch 2.
InitialPanel ==
    [phase |-> "constructed",
     handlers |-> FALSE,
     activeTriggers |-> {},
     lastAlertTime |-> 0,
     alertsDisabled |-> FALSE,
     currentLedState |-> "Off",
     switch1PreviousState |-> <<>>,
     switch2PressStartTime |-> <<>>,
     switch2LongPressTimeout |-> NULL,
     switch2LongPressTriggered |-> FALSE,
     timeouts |-> <<>>,
     alertCalls |-> 0,
     shortPresses |-> 0,
     longPresses |-> 0]

\* The clock (Date.now(), never 0), the level of switch 1 (0 is pressed), and
\* the history the properties speak of: the instants of initialize, of the
\* last release of switch 1 and of the last alert; whether switch 2 is down
\* (from a 'pressed' event to the next 'released' event), since when, whether
\* the handlers were registered then, and the calls of its handlers counted
\* when it went down.
InitialWorld ==
    [now |-> 1,
     switch1 |-> 1,
     startedAt |-> 0,
     releasedAt |-> 0,
     alertAt |-> 0,
     switch2Down |-> FALSE,
     switch2Since |-> 0,
     switch2Handled |-> FALSE,
     switch2Before |-> 0]

\* FrontPanel.setLedState
setLedState(p, state) ==
    IF p.currentLedState = state THEN p
    ELSE [p EXCEPT !.currentLedState = state]

\* updateLedState without the test of alertsDisabled.
updateLedStateAlways(p) ==
    IF p.activeTriggers # {}
    THEN setLedState(p, "FastBlink")
    ELSE setLedState(p, "SlowFlash")

\* PiGuard.updateLedState
updateLedState(p) ==
    IF p.alertsDisabled THEN p
    ELSE IF Cardinality(p.activeTriggers) > 0
    THEN setLedState(p, "FastBlink")
    ELSE setLedState(p, "SlowFlash")

\* PiGuard.isInCooldown at the instant now
isInCooldown(p, now) ==
    IF p.alertsDisabled THEN TRUE
    ELSE IF p.lastAlertTime = 0 THEN FALSE
    ELSE now - p.lastAlertTime < smsCooldownPeriod

\* PiGuard.handleTrigger up to its await of sendToAll
handleTrigger(p, now) ==
    IF isInCooldown(p, now) THEN p
    ELSE IF disableAlertSMS THEN [p EXCEPT !.lastAlertTime = now]
    ELSE [p EXCEPT !.lastAlertTime = now, !.alertCalls = @ + 1]

\* The callback of gpio.watch of a trigger, without an error.
triggerWatch(p, key, value, now) ==
    IF value = 1
    THEN IF key \in p.activeTriggers
         THEN updateLedState(p)
         ELSE updateLedState(
                  handleTrigger([p EXCEPT !.activeTriggers = @ \cup {key}],
                                now))
    ELSE updateLedState([p EXCEPT !.activeTriggers = @ \ {key}])

\* The handlers PiGuard.setupFrontPanelHandlers registers for switch 1.
onSwitch1Pressed(p) ==
    setLedState([p EXCEPT !.alertsDisabled = TRUE], "SolidOn")

onSwitch1Released(p, now) ==
    updateLedState([p EXCEPT !.alertsDisabled = FALSE,
                             !.lastAlertTime = now])

\* The callback of switch1.watch, without an error: this.switch1Pressed?.()
switch1Watch(p, value, now) ==
    IF p.switch1PreviousState = <<value>> THEN p
    ELSE LET q == [p EXCEPT !.switch1PreviousState = <<value>>]
         IN  IF ~q.handlers THEN q
             ELSE IF value = 0 THEN onSwitch1Pressed(q)
             ELSE onSwitch1Released(q, now)

\* FrontPanel.handleSwitch2Pressed
handleSwitch2Pressed(p, now) ==
    [p EXCEPT !.switch2PressStartTime = <<now>>,
              !.switch2LongPressTriggered = FALSE,
              !.timeouts =
                  Append(@, [due |-> now + LONG_PRESS_THRESHOLD_MS,
                             live |-> TRUE]),
              !.switch2LongPressTimeout = Len(p.timeouts) + 1]

\* FrontPanel.handleSwitch2Released: this.switch2ShortPress?.()
handleSwitch2Released(p) ==
    LET q == IF p.switch2LongPressTimeout # NULL
             THEN [p EXCEPT !.timeouts[p.switch2LongPressTimeout].live = FALSE,
                            !.switch2LongPressTimeout = NULL]
             ELSE p
        r == IF q.switch2PressStartTime # <<>> /\ ~q.switch2LongPressTriggered
                    /\ q.handlers
             THEN [q EXCEPT !.shortPresses = @ + 1]
             ELSE q
    IN  [r EXCEPT !.switch2PressStartTime = <<>>]

\* The callback of the timer i of handleSwitch2Pressed:
\* this.switch2LongPress?.()
longPressTimeout(p, i) ==
    [p EXCEPT !.timeouts[i].live = FALSE,
              !.switch2LongPressTriggered = TRUE,
              !.longPresses = IF p.handlers THEN @ + 1 ELSE @]

\* ---------------------------------------------------------------- states
InitCommon ==
    /\ queue = <<>>
    /\ processing = FALSE
    /\ currentCommand = NULL
    /\ cmds = [c \in CmdIds |-> NoCommand]
    /\ nextCmd = 1
    /\ portExists = FALSE
    /\ portOpen = FALSE
    /\ isReady = FALSE
    /\ isReconnecting = FALSE
    /\ reconnectAttempts = 0
    /\ pendingCommand = NULL
    /\ timer = [t \in Tasks |-> FALSE]
    /\ responseBuffer = <<>>
    /\ task = [t \in Tasks |-> IdleTask]
    /\ faults = 0
    /\ lifecycle = "constructed"
    /\ opsStarted = 0
    /\ linkLost = FALSE
    /\ wire = [kind |-> "none", command |-> "", data |-> "", busy |-> FALSE,
               linkLost |-> FALSE]
    /\ owed = ""
    /\ diagnostics = <<>>
    /\ heap = <<>>
    /\ snapshot = <<>>
    /\ held = FALSE
    /\ diagSteps = 0
    /\ panel = InitialPanel
    /\ world = InitialWorld

\* new GSMModule(config): the queue's executor is executeATCommand.
Init == InitCommon /\ executor = "gsm"

\* new ATCommandQueue() with an executor of the caller's.
InitQueue == InitCommon /\ executor = "stub"

\* --------------------------------------------------- actions: the callers
BeginOp(s, k, op) ==
    [s EXCEPT !.task[k] = [IdleTask EXCEPT !.op = op, !.idx = 1],
              !.opsStarted = IF op = "init" THEN @ ELSE @ + 1]

\* initialize() up to the call of port.open().  The program's main calls it
\* once, first.
StartInitialize(k) ==
    /\ executor = "gsm"
    /\ lifecycle = "constructed"
    /\ k = 1
    /\ Step([BeginOp(S, k, "init") EXCEPT !.lifecycle = "initializing",
                                             !.portExists = TRUE,
                                             !.portOpen = FALSE,
                                             !.task[k].pc = "i_open"])

\* port.open's callback in initialize.
InitializeOpenDone(k, ok) ==
    /\ task[k].pc = "i_open"
    /\ ~ok => faults < MaxFaults
    /\ Step(IF ok
               THEN [S EXCEPT !.portOpen = TRUE, !.task[k].pc = "i_settle"]
               ELSE [Return(S, k, "threw")
                        EXCEPT !.faults = @ + 1, !.lifecycle = "failed"])

\* initialize's delay(2000) ends: the first sendCommand.
InitializeSettleDone(k) ==
    /\ task[k].pc = "i_settle"
    /\ Step(sendCommand(S, k))

\* PiGuard starts the other operations once initialize() has returned; the
\* idle callers are interchangeable, so the lowest one takes the operation.
CanBegin(k) ==
    /\ executor = "gsm"
    /\ lifecycle = "initialized"
    /\ task[k].pc = "idle"
    /\ opsStarted < MaxOps
    /\ \A j \in Callers : j < k => task[j].pc # "idle"

\* A caller calls performConnectionTest().
StartConnectionTest(k) ==
    /\ CanBegin(k)
    /\ Step(sendCommand(BeginOp(S, k, "test"), k))

\* A caller calls sendToAll(message).
StartSendToAll(k) ==
    /\ CanBegin(k)
    /\ Step(sendToAllFrom(BeginOp(S, k, "sms"), k))

\* A caller calls close(): at any time after the construction.
StartClose(k) ==
    /\ executor = "gsm"
    /\ task[k].pc = "idle"
    /\ opsStarted < MaxOps
    /\ \A j \in Callers : j < k => task[j].pc # "idle"
    /\ Step(Return(close(BeginOp(S, k, "close")), k, "returned"))

\* sendSMS's delay(600) ends: the body goes to executeATCommand.
SmsSettleDone(k) ==
    /\ task[k].pc = "settle"
    /\ Step(executeATCommand(S, k))

\* ------------------------------------------------- actions: the event loop
\* The setImmediate callback of a drain: processNext.
Immediate(d) ==
    /\ task[d].pc = "immediate"
    /\ Step(processNext(S, d))

\* One delay(100) of ensurePortOpen's wait loop ends.
PollTick(t) ==
    /\ task[t].pc = "poll"
    /\ Step(ensurePortOpenPoll(S, t))

\* port.open's callback in reconnect.
OpenDone(t, ok) ==
    /\ task[t].pc = "r_open"
    /\ ~ok => faults < MaxFaults
    /\ Step(IF ok
               THEN [S EXCEPT !.portOpen = @ \/ ~task[t].orphan,
                              !.task[t].pc = "r_settle"]
               ELSE reconnectCatch([S EXCEPT !.faults = @ + 1], t))

\* reconnect's delay(2000) after the open ends: the init commands start.
ReconnectSettleDone(t) ==
    /\ task[t].pc = "r_settle"
    /\ Step(executeATCommandDirectly(S, t, 1))

\* reconnect's delay(2000) after a failed attempt ends.
ReconnectBackoffDone(t) ==
    /\ task[t].pc = "r_backoff"
    /\ Step(reconnectLoop(S, t))

\* The parser emits a line.
Line(l) ==
    /\ PortIsOpen(S)
    /\ l.hasError => faults < MaxFaults
    /\ pendingCommand = NULL => l \in UnsolicitedLines \cup {EmptyLine}
    /\ l \in ProbeLines =>
           /\ pendingCommand # NULL
           /\ Includes(l, ExpectedOf(S, pendingCommand))
    /\ (l # EmptyLine
            /\ (pendingCommand = NULL
                   \/ (~l.hasError /\ ~Includes(l, ExpectedOf(S, pendingCommand)))))
           => Len(responseBuffer) < MaxBufLines
    /\ Step(handleResponse(
           [S EXCEPT !.faults = IF l.hasError THEN @ + 1 ELSE @], l))

\* The parser emits the response to a command that has timed out, while
\* another command is in flight.
LateLine(l) ==
    /\ PortIsOpen(S)
    /\ owed # ""
    /\ pendingCommand # NULL
    /\ ~l.hasError
    /\ Includes(l, owed)
    /\ Step(handleResponse([S EXCEPT !.owed = ""], l))

Timeout(t) ==
    /\ timer[t]
    /\ faults < MaxFaults
    /\ Step(onTimeout([S EXCEPT !.faults = @ + 1], t))

\* port.write's callback without an error, for a command with no response.
WriteAck(t) ==
    /\ task[t].pc = "x_ack"
    /\ Step(execSettled(S, t, TRUE, <<>>))

WriteError(t) ==
    /\ task[t].pc = "x_ack" \/ timer[t]
    /\ faults < MaxFaults
    /\ Step(onWriteError([S EXCEPT !.faults = @ + 1], t))

\* The port closes without close() having been called.
PortClose ==
    /\ PortIsOpen(S)
    /\ faults < MaxFaults
    /\ Step(onCloseEvent([S EXCEPT !.faults = @ + 1, !.linkLost = TRUE]))

PortError ==
    /\ PortIsOpen(S)
    /\ faults < MaxFaults
    /\ Step(onErrorEvent([S EXCEPT !.faults = @ + 1]))

Next ==
    \/ \E k \in Callers : StartInitialize(k)
    \/ \E k \in Callers, ok \in BOOLEAN : InitializeOpenDone(k, ok)
    \/ \E k \in Callers : InitializeSettleDone(k)
    \/ \E k \in Callers : StartConnectionTest(k)
    \/ \E k \in Callers : StartSendToAll(k)
    \/ \E k \in Callers : StartClose(k)
    \/ \E k \in Callers : SmsSettleDone(k)
    \/ \E d \in Drains : Immediate(d)
    \/ \E t \in Tasks : PollTick(t)
    \/ \E t \in Tasks, ok \in BOOLEAN : OpenDone(t, ok)
    \/ \E t \in Tasks : ReconnectSettleDone(t)
    \/ \E t \in Tasks : ReconnectBackoffDone(t)
    \/ \E l \in Lines : Line(l)
    \/ \E l \in Lines : LateLine(l)
    \/ \E t \in Tasks : Timeout(t)
    \/ \E t \in Tasks : WriteAck(t)
    \/ \E t \in Tasks : WriteError(t)
    \/ PortClose
    \/ PortError

Spec == Init /\ [][Next]_vars

\* ------------------------------------- actions: the queue with any executor
QAdd ==
    /\ executor = "stub"
    /\ nextCmd <= MaxQueueAdds
    /\ Step(add(S, "AT", "OK", NULL))

QClear ==
    /\ executor = "stub"
    /\ Step(clear(S))

\* The executor's promise resolves / rejects.
QExecSucceed(d) ==
    /\ task[d].pc = "exec"
    /\ Step(drainResume(S, d, TRUE, <<"OK">>))

QExecFail(d) ==
    /\ task[d].pc = "exec"
    /\ Step(drainResume(S, d, FALSE, <<"Command timeout">>))

NextQueue ==
    \/ QAdd
    \/ QClear
    \/ \E d \in Drains : QExecSucceed(d)
    \/ \E d \in Drains : QExecFail(d)
    \/ \E d \in Drains : Immediate(d)

SpecQueue == InitQueue /\ [][NextQueue]_vars

\* ------------------ actions: reconnects to a modem that stops answering
\* The timeout of an init command of reconnect.
ReconnectInitTimeout(t) ==
    /\ timer[t]
    /\ task[t].pc = "r_init"
    /\ task[t].step = 1
    /\ faults < MaxReconnectFaults
    /\ Step(onTimeout([S EXCEPT !.faults = @ + 1], t))

\* initialize(), then the link is lost and the performConnectionTest() calls,
\* made while the port is closed, reconnect to a modem that answers its first
\* init command or not.
NextReconnect ==
    \/ StartInitialize(1)
    \/ InitializeOpenDone(1, TRUE)
    \/ InitializeSettleDone(1)
    \/ \E k \in Callers : ~PortIsOpen(S) /\ StartConnectionTest(k)
    \/ \E d \in Drains : Immediate(d)
    \/ \E t \in Tasks : OpenDone(t, TRUE)
    \/ \E t \in Tasks : ReconnectSettleDone(t)
    \/ \E t \in Tasks : ReconnectBackoffDone(t)
    \/ \E l \in Lines : pendingCommand # NULL /\ ~l.hasError /\ Line(l)
    \/ PortClose
    \/ \E t \in Tasks : ReconnectInitTimeout(t)

SpecReconnect == Init /\ [][NextReconnect]_vars

\* ============================================================ diagnostics
\* A response of the modem to a probe, as far as the parsers look at it: the
\* +TAG: it carries, the run of comma-separated numbers that follows the tag,
\* the text in double quotes after them, the number after the quoted text,
\* and the rest of the line after the tag.
Response(tag, nums, quoted, after, rest) ==
    [tag |-> tag, nums |-> nums, quoted |-> quoted, after |-> after,
     rest |-> rest]

Responses ==
    {Response("+CPIN:", <<>>, "", <<>>, "READY"),
     Response("+CPIN:", <<>>, "", <<>>, "SIM PIN"),
     Response("+CMGF:", <<1>>, "", <<>>, "1"),
     Response("+CMGF:", <<>>, "", <<>>, "text"),
     Response("+CREG:", <<0, 1>>, "", <<>>, "0,1"),
     Response("+CREG:", <<1, 7>>, "", <<>>, "1,7"),
     Response("+CREG:", <<2>>, "", <<>>, "2"),
     Response("+CSQ:", <<20, 0>>, "", <<>>, "20,0"),
     Response("+CSQ:", <<99, 99>>, "", <<>>, "99,99"),
     Response("+CSQ:", <<>>, "", <<>>, "n/a"),
     Response("+CSCA:", <<>>, "+48601000310", <<145>>, "\"+48601000310\",145"),
     Response("+CSCA:", <<145>>, "", <<>>, "145"),
     Response("+COPS:", <<0, 0>>, "Operator", <<7>>, "0,0,\"Operator\",7"),
     Response("+COPS:", <<0, 0>>, "Operator", <<>>, "0,0,\"Operator\""),
     Response("+COPS:", <<0, 2, 26001>>, "", <<>>, "0,2,26001"),
     Response("+COPS:", <<0>>, "", <<>>, "0"),
     Response("OK", <<>>, "", <<>>, "")}

\* undefined, the result of a parser that found no match
Undefined == [matched |-> FALSE]
Matched(v) == [matched |-> TRUE, value |-> v]

\* A JavaScript object as a function from its property names; {} is <<>>.
Has(o, f) == f \in DOMAIN o

\* Object.assign(target, source)
ObjectAssign(target, source) ==
    [f \in DOMAIN target \cup DOMAIN source |->
        IF f \in DOMAIN source THEN source[f] ELSE target[f]]

Lookup(map, key, default) == IF key \in DOMAIN map THEN map[key] ELSE default

getPinStatusDescription(pinStatus) ==
    Lookup([x \in {"READY", "SIM PIN", "SIM PUK"} |->
               CASE x = "READY" -> "SIM card ready"
                 [] x = "SIM PIN" -> "SIM PIN required"
                 [] x = "SIM PUK" -> "SIM PUK required (PIN locked)"],
           pinStatus, pinStatus)

parseCPIN(response) ==
    IF response.tag = "+CPIN:" /\ response.rest # ""
    THEN Matched(response.rest)
    ELSE Undefined

getMessageFormatDescription(mode) ==
    IF mode = 0 THEN "PDU mode"
    ELSE IF mode = 1 THEN "Text mode"
    ELSE "Unknown mode (" \o ToString(mode) \o ")"

parseCMGF(response) ==
    IF response.tag = "+CMGF:" /\ Len(response.nums) >= 1
    THEN Matched(response.nums[1])
    ELSE Undefined

getNetworkRegistrationModeDescription(n) ==
    Lookup(<<"Notifications enabled",
             "Notifications with location info enabled">>,
           n, IF n = 0 THEN "Notifications disabled"
              ELSE "Unknown mode (" \o ToString(n) \o ")")

getNetworkStatusDescription(stat) ==
    Lookup(<<"Registered (home network)", "Not registered, searching",
             "Registration denied", "Unknown", "Registered (roaming)">>,
           stat, IF stat = 0 THEN "Not registered, not searching"
                 ELSE "Unknown status (" \o ToString(stat) \o ")")

parseCREG(response) ==
    IF response.tag = "+CREG:" /\ Len(response.nums) >= 2
    THEN Matched([n |-> response.nums[1], stat |-> response.nums[2]])
    ELSE Undefined

rssiToDbm(rssi) ==
    IF rssi = 99 THEN "Unknown or not detectable"
    ELSE IF rssi = 0 THEN "-113 dBm or less"
    ELSE IF rssi = 31 THEN "-51 dBm or greater"
    ELSE ToString(rssi * 2 - 113) \o " dBm"

\* The buckets with their lower limits left out.
getSignalStrengthDescriptionAbove(rssi) ==
    IF rssi = 99 THEN "Unknown"
    ELSE IF rssi > 20 THEN "Excellent"
    ELSE IF rssi > 15 THEN "Good"
    ELSE IF rssi > 10 THEN "Fair"
    ELSE IF rssi > 5 THEN "Poor"
    ELSE "Very Poor"

getSignalStrengthDescription(rssi) ==
    IF rssi = 99 THEN "Unknown"
    ELSE IF rssi >= 20 THEN "Excellent"
    ELSE IF rssi >= 15 THEN "Good"
    ELSE IF rssi >= 10 THEN "Fair"
    ELSE IF rssi >= 5 THEN "Poor"
    ELSE "Very Poor"

getSignalQualityDescription(ber) ==
    IF ber = 99 THEN "Unknown"
    ELSE Lookup(<<"Good (0.2% - 0.4%)", "Fair (0.4% - 0.8%)",
                  "Poor (0.8% - 1.6%)", "Very Poor (1.6% - 3.2%)",
                  "Bad (3.2% - 6.4%)", "Very Bad (6.4% - 12.8%)",
                  "Extremely Bad (> 12.8%)">>,
                ber, IF ber = 0 THEN "Excellent (< 0.2%)"
                     ELSE "Unknown (" \o ToString(ber) \o ")")

parseCSQ(response) ==
    IF response.tag = "+CSQ:" /\ Len(response.nums) >= 2
    THEN Matched([rssi |-> response.nums[1], ber |-> response.nums[2]])
    ELSE Undefined

parseCSCA(response) ==
    IF response.tag = "+CSCA:" /\ response.quoted # ""
    THEN Matched(response.quoted)
    ELSE Undefined

getAccessTechnologyDescription(act) ==
    Lookup(<<"2G", "3G", "2G", "3.5G", "3.5G", "3.5G", "4G">>,
           act, IF act = 0 THEN "2G" ELSE ToString(act))

\* parseCOPS: the operator in quotes with the access technology, the operator
\* in quotes alone, or a numeric operator with an optional access technology.
parseCOPS(response) ==
    IF response.tag # "+COPS:" THEN Undefined
    ELSE IF Len(response.nums) >= 2 /\ response.quoted # ""
            /\ Len(response.after) >= 1
    THEN Matched([operator |-> response.quoted, act |-> response.after[1]])
    ELSE IF Len(response.nums) >= 2 /\ response.quoted # ""
    THEN Matched([operator |-> response.quoted])
    ELSE IF Len(response.nums) >= 3
    THEN Matched(IF Len(response.nums) >= 4
                 THEN [operator |-> ToString(response.nums[3]),
                       act |-> response.nums[4]]
                 ELSE [operator |-> ToString(response.nums[3])])
    ELSE Undefined

\* command.includes(token), for the commands of performConnectionTest
CommandIncludes(command, token) == command = "AT" \o token

\* The object parseCREG or parseCSQ creates for this command and response, if
\* any: extractDiagnosticsFromResponse stores a reference to it.
CreatedObject(command, response) ==
    IF CommandIncludes(command, "+CREG?") THEN parseCREG(response)
    ELSE IF CommandIncludes(command, "+CSQ") THEN parseCSQ(response)
    ELSE Undefined

\* extractDiagnosticsFromResponse; ref is the reference of the created object.
extractDiagnosticsFromResponse(command, response, ref) ==
    IF CommandIncludes(command, "+CPIN?")
    THEN LET pinStatus == parseCPIN(response)
         IN  IF pinStatus.matched
             THEN [f \in {"pinStatus", "pinStatusDescription"} |->
                      IF f = "pinStatus" THEN pinStatus.value
                      ELSE getPinStatusDescription(pinStatus.value)]
             ELSE <<>>
    ELSE IF CommandIncludes(command, "+CMGF?")
    THEN LET messageFormat == parseCMGF(response)
         IN  IF messageFormat.matched
             THEN [f \in {"messageFormat", "messageFormatDescription"} |->
                      IF f = "messageFormat" THEN messageFormat.value
                      ELSE getMessageFormatDescription(messageFormat.value)]
             ELSE <<>>
    ELSE IF CommandIncludes(command, "+CREG?")
    THEN LET networkReg == parseCREG(response)
         IN  IF networkReg.matched
             THEN [f \in {"networkRegistration",
                          "networkRegistrationDescription",
                          "networkStatusDescription"} |->
                      IF f = "networkRegistration" THEN ref
                      ELSE IF f = "networkRegistrationDescription"
                      THEN getNetworkRegistrationModeDescription(
                               networkReg.value.n)
                      ELSE getNetworkStatusDescription(networkReg.value.stat)]
             ELSE <<>>
    ELSE IF CommandIncludes(command, "+CSQ")
    THEN LET signalQuality == parseCSQ(response)
         IN  IF signalQuality.matched
             THEN [f \in {"signalQuality", "rssiValue",
                          "signalStrengthDescription",
                          "signalQualityDescription"} |->
                      IF f = "signalQuality" THEN ref
                      ELSE IF f = "rssiValue"
                      THEN rssiToDbm(signalQuality.value.rssi)
                      ELSE IF f = "signalStrengthDescription"
                      THEN getSignalStrengthDescription(
                               signalQuality.value.rssi)
                      ELSE getSignalQualityDescription(
                               signalQuality.value.ber)]
             ELSE <<>>
    ELSE IF CommandIncludes(command, "+CSCA?")
    THEN LET sca == parseCSCA(response)
         IN  IF sca.matched
             THEN [f \in {"serviceCenterAddress"} |-> sca.value]
             ELSE <<>>
    ELSE IF CommandIncludes(command, "+COPS?")
    THEN LET copsData == parseCOPS(response)
         IN  IF copsData.matched
             THEN ObjectAssign(
                      [f \in {"currentOperator"} |-> copsData.value.operator],
                      IF Has(copsData.value, "act")
                      THEN [f \in {"accessTechnology",
                                   "accessTechnologyDescription"} |->
                               IF f = "accessTechnology"
                               THEN copsData.value.act
                               ELSE getAccessTechnologyDescription(
                                        copsData.value.act)]
                      ELSE <<>>)
             ELSE <<>>
    ELSE <<>>

\* The merge as an assignment: this.diagnostics = diagnostics.
replaceDiagnostics(target, extracted) == extracted

\* Object.assign(this.diagnostics, diagnostics) in performConnectionTest
mergeDiagnostics(target, extracted) == ObjectAssign(target, extracted)

\* The fields whose values are references to objects.
ObjectFields == {"networkRegistration", "signalQuality"}

\* What a reader of the record d sees: the references followed.
Deref(d) ==
    [f \in DOMAIN d |-> IF f \in ObjectFields THEN heap[d[f]] ELSE d[f]]

\* ---------------------------------------------- actions: the diagnostics
\* A test of performConnectionTest got its response: lines 85-89.
ProbeResponse(i, response) ==
    /\ diagSteps < MaxDiagSteps
    /\ LET command == Probes[i].command
           created == CreatedObject(command, response)
           ref     == Len(heap) + 1
       IN  /\ heap' = IF created.matched THEN Append(heap, created.value)
                      ELSE heap
           /\ diagnostics' =
                  mergeDiagnostics(diagnostics,
                      extractDiagnosticsFromResponse(command, response, ref))
    /\ diagSteps' = diagSteps + 1
    /\ UNCHANGED <<snapshot, held, engineVars, panelVars>>

\* getDiagnostics(): { ...this.diagnostics }
getDiagnostics(d) == [f \in DOMAIN d |-> d[f]]

\* A caller calls getDiagnostics() and keeps the value.
GetDiagnostics ==
    /\ diagSteps < MaxDiagSteps
    /\ snapshot' = getDiagnostics(diagnostics)
    /\ held' = TRUE
    /\ diagSteps' = diagSteps + 1
    /\ UNCHANGED <<diagnostics, heap, engineVars, panelVars>>

\* The caller assigns to a property of the value it got.
MutateSnapshot(f) ==
    /\ held
    /\ diagSteps < MaxDiagSteps
    /\ f \notin ObjectFields
    /\ snapshot' = ObjectAssign(snapshot, [g \in {f} |-> "changed"])
    /\ diagSteps' = diagSteps + 1
    /\ UNCHANGED <<diagnostics, heap, held, engineVars, panelVars>>

\* The caller assigns to a property of a nested object of the value it got.
MutateNested(f, g) ==
    /\ held
    /\ diagSteps < MaxDiagSteps
    /\ f \in ObjectFields
    /\ Has(snapshot, f)
    /\ Has(heap[snapshot[f]], g)
    /\ heap' = [heap EXCEPT ![snapshot[f]][g] = 255]
    /\ diagSteps' = diagSteps + 1
    /\ UNCHANGED <<diagnostics, snapshot, held, engineVars, panelVars>>

NextDiagnostics ==
    \/ \E i \in 1..Len(Probes), response \in Responses :
           ProbeResponse(i, response)
    \/ GetDiagnostics
    \/ \E f \in {"pinStatus", "currentOperator"} : MutateSnapshot(f)
    \/ \E f \in ObjectFields, g \in {"n", "stat", "rssi", "ber"} :
           MutateNested(f, g)

SpecDiagnostics == Init /\ [][NextDiagnostics]_vars

\* --------------------------------------------- actions: the signal report
\* The values of <rssi> and <ber> in the modem's +CSQ: <rssi>,<ber>.
RssiValues == 0..31 \cup {99}
BerValues == 0..7 \cup {99}

CsqResponse(rssi, ber) ==
    Response("+CSQ:", <<rssi, ber>>, "", <<>>,
             ToString(rssi) \o "," \o ToString(ber))

\* The probe AT+CSQ of performConnectionTest got its response.
SignalProbe(rssi, ber) ==
    /\ diagSteps < MaxSignalSteps
    /\ \E i \in 1..Len(Probes) :
           /\ Probes[i].command = "AT+CSQ"
           /\ ProbeResponse(i, CsqResponse(rssi, ber))

NextSignal == \E rssi \in RssiValues, ber \in BerValues : SignalProbe(rssi, ber)

SpecSignal == Init /\ [][NextSignal]_vars

\* ------------------------------------------------ actions: the front panel
\* A timer of switch 2 is due: its callback runs before any later event.
TimerDue ==
    \E i \in 1..Len(panel.timeouts) :
        panel.timeouts[i].live /\ panel.timeouts[i].due <= world.now

\* PiGuard.initialize up to its await of setupTriggers: FrontPanel.initialize
\* sets the watchers of the switches and reads switch 1, line 43 sets
\* lastAlertTime, setupTriggers reads the triggers that are active (initial).
PanelInitialize(initial) ==
    /\ panel.phase = "constructed"
    /\ LET p == [panel EXCEPT !.phase = "triggers",
                              !.switch1PreviousState = <<world.switch1>>,
                              !.lastAlertTime = world.now,
                              !.activeTriggers = initial]
       IN  panel' = IF world.switch1 = 0
                    THEN setLedState([p EXCEPT !.alertsDisabled = TRUE],
                                     "SolidOn")
                    ELSE p
    /\ world' = [world EXCEPT !.startedAt = world.now]
    /\ UNCHANGED <<engineVars, diagVars>>

\* setupTriggers has returned: setupFrontPanelHandlers and updateLedState,
\* lines 45-50.
PanelRunning ==
    /\ panel.phase = "triggers"
    /\ ~TimerDue
    /\ panel' = updateLedState([panel EXCEPT !.phase = "running",
                                             !.handlers = TRUE])
    /\ UNCHANGED <<world, engineVars, diagVars>>

\* The key is turned to or from the position of switch 1; the watcher, once
\* set, delivers the new level.
Switch1Turn ==
    /\ ~TimerDue
    /\ LET value == 1 - world.switch1
       IN  /\ world' = [world EXCEPT
                           !.switch1 = value,
                           !.releasedAt = IF value = 1 THEN world.now ELSE @]
           /\ panel' = IF panel.phase = "constructed" THEN panel
                       ELSE switch1Watch(panel, value, world.now)
    /\ UNCHANGED <<engineVars, diagVars>>

\* The watcher of a trigger delivers a level.
TriggerEvent(key, value) ==
    /\ panel.phase # "constructed"
    /\ ~TimerDue
    /\ panel' = triggerWatch(panel, key, value, world.now)
    /\ world' = IF panel'.alertCalls # panel.alertCalls
                THEN [world EXCEPT !.alertAt = world.now]
                ELSE world
    /\ UNCHANGED <<engineVars, diagVars>>

\* The watcher of switch 2 delivers a level: 0 is 'pressed'.
Switch2Event(value) ==
    /\ panel.phase # "constructed"
    /\ ~TimerDue
    /\ IF value = 0
       THEN /\ Len(panel.timeouts) < MaxPresses
            /\ panel' = handleSwitch2Pressed(panel, world.now)
            /\ world' = IF world.switch2Down THEN world
                        ELSE [world EXCEPT
                                 !.switch2Down = TRUE,
                                 !.switch2Since = world.now,
                                 !.switch2Handled = panel.handlers,
                                 !.switch2Before =
                                     panel.shortPresses + panel.longPresses]
       ELSE /\ panel' = handleSwitch2Released(panel)
            /\ world' = [world EXCEPT !.switch2Down = FALSE]
    /\ UNCHANGED <<engineVars, diagVars>>

\* A timer of handleSwitch2Pressed fires.
LongPressTimer(i) ==
    /\ i \in 1..Len(panel.timeouts)
    /\ panel.timeouts[i].live
    /\ panel.timeouts[i].due <= world.now
    /\ panel' = longPressTimeout(panel, i)
    /\ UNCHANGED <<world, engineVars, diagVars>>

\* The clock advances; setupTriggers takes less than one unit.
Tick ==
    /\ panel.phase = "running"
    /\ ~TimerDue
    /\ world.now < MaxTime
    /\ world' = [world EXCEPT !.now = @ + 1]
    /\ UNCHANGED <<panel, engineVars, diagVars>>

NextPanel ==
    \/ \E initial \in SUBSET TriggerKeys : PanelInitialize(initial)
    \/ PanelRunning
    \/ Switch1Turn
    \/ \E key \in TriggerKeys, value \in {0, 1} : TriggerEvent(key, value)
    \/ \E value \in {0, 1} : Switch2Event(value)
    \/ \E i \in 1..MaxPresses : LongPressTimer(i)
    \/ Tick

SpecPanel == Init /\ [][NextPanel]_vars

\* ================================================================ claims
InQueue(c) == \E i \in 1..Len(queue) : queue[i] = c

\* A drain whose executor call has not settled yet.
Executing(d) ==
    task[d].pc \in {"exec", "poll", "r_open", "r_settle", "r_init",
                    "r_backoff", "x_resp", "x_ack"}

\* A drain that will run again: it awaits its executor or its setImmediate.
Alive(d) == Executing(d) \/ task[d].pc = "immediate"

Pending(c) == cmds[c].promise = "pending"

\* resolve and reject are only ever called on the members of the queue (by
\* clear) and on currentCommand (by a processNext that will run again): a
\* pending command that is neither can never be settled.
Tracked(c) ==
    \/ InQueue(c)
    \/ currentCommand = c /\ \E d \in Drains : Alive(d)

\* C1: every command submitted while the link is open is settled exactly once
\* and never left pending: no reachable state holds a pending command that can
\* never be settled, and no command has resolve/reject called on it twice.
C1_SettledExactlyOnce ==
    \A c \in CmdIds :
        /\ cmds[c].settles <= 1
        /\ Pending(c) => Tracked(c)

\* C2: the queue never hands a command to its executor while an earlier
\* executor call is still outstanding: at most one drain is executing.
C2_OneDrainExecuting ==
    Cardinality({d \in Drains : Executing(d)}) <= 1

\* C3: no command is written to the serial port while another command's
\* response expectation (pendingCommand) is outstanding.
C3_OneCommandInFlight == ~wire.busy

\* C5: retries keep FIFO among distinct commands: whenever a command b is
\* handed to the executor, every command a enqueued before b is resolved or
\* permanently failed; so b is never dispatched between two attempts of a.
C5_RetryBeforeLater ==
    [][\A a, b \in CmdIds :
          (a < b /\ cmds'[b].executions > cmds[b].executions)
              => cmds'[a].promise # "pending"]_vars

ExhaustedFailure(d) ==
    /\ QExecFail(d)
    /\ currentCommand # NULL
    /\ cmds[currentCommand].retries >= maxRetries

C7_ClearSettlesAll ==
    [][QClear =>
          /\ queue' = <<>>
          /\ \A c \in CmdIds :
                 Pending(c) =>
                     /\ cmds'[c].promise = "rejected"
                     /\ cmds'[c].result = <<"Queue cleared">>]_vars

\* C4: a line with ERROR or FAIL received while command X is in flight rejects
\* X with that line as the error and leaves no expectation pending: the queue
\* retries X or fails it for good with that line, sendSMS records that line as
\* the recipient's error.  The commands queued behind X (the queued commands
\* other than X and the queue's current command) are not settled and keep
\* their retries.
C4_ErrorLineRejectsInFlight ==
    [][\A l \in Lines :
          (Line(l) /\ l.hasError /\ pendingCommand # NULL) =>
              LET p == pendingCommand
                  x == task[p].cmd
              IN  /\ ~timer'[p]
                  /\ task'[p].pc \notin {"x_resp", "r_init"}
                  /\ pendingCommand' = NULL
                  /\ \A i \in 1..Len(queue) :
                         queue[i] \notin {x, currentCommand} =>
                             cmds'[queue[i]] = cmds[queue[i]]
                  /\ (p \in Drains /\ task[p].pc = "x_resp"
                          /\ currentCommand = x /\ Pending(x)) =>
                         IF cmds[x].retries < maxRetries
                         THEN /\ cmds'[x].promise = "pending"
                              /\ cmds'[x].retries = cmds[x].retries + 1
                              /\ queue' # <<>> /\ Head(queue') = x
                         ELSE /\ cmds'[x].promise = "rejected"
                              /\ cmds'[x].result = <<l.text>>
                  /\ (p \in Callers /\ task[p].pc = "x_resp") =>
                         task'[p].results[task[p].idx] =
                             [recipient |-> task[p].idx, success |-> FALSE,
                              error |-> <<l.text>>]]_vars

\* An ERROR line has rejected the in-flight command X, which is requeued at
\* the head, ahead of a command that was queued behind it.
C4_Witness ==
    /\ Len(queue) >= 2
    /\ cmds[queue[1]].retries = 1
    /\ cmds[queue[2]].retries = 0
    /\ pendingCommand = NULL
    /\ responseBuffer # <<>>
    /\ responseBuffer[Len(responseBuffer)] \in {ErrorLine.text, ErrorOkLine.text}

\* C8: when the port closes unexpectedly while a queued command is in flight,
\* the caller of that command observes a rejection with the link-closed error
\* and every command waiting in the queue is rejected too: none stays pending.
\* Checked in its weakest form: after the close event, every command that was
\* pending is rejected or can still be settled.
C8_CloseRejectsInFlight ==
    [][(/\ PortClose
        /\ pendingCommand \in Drains
        /\ task[pendingCommand].pc = "x_resp"
        /\ currentCommand = task[pendingCommand].cmd) =>
          \A c \in CmdIds :
              Pending(c) => (cmds'[c].promise = "rejected" \/ Tracked(c)')]_vars

\* C9: after an unexpected close, no command of a caller (a queued command or
\* an SMS body) is written to the port before a reconnect has reopened it and
\* completed the whole init sequence.
C9_NoWriteBeforeReinit ==
    wire.kind \in {"queue", "body"} => ~wire.linkLost

\* C10: sendToAll keeps one result per recipient, in configuration order; a
\* failure while sending to one recipient is recorded as that recipient's
\* {success: false, error} and the loop goes on to the remaining recipients,
\* so that sendToAll returns the whole list: a sendToAll that awaits a command
\* awaits one that can still be settled.
SmsResultsInOrder(t) ==
    /\ Len(t.results) = t.idx - 1
    /\ \A i \in 1..Len(t.results) :
           /\ t.results[i].recipient = i
           /\ t.results[i].success <=> t.results[i].error = <<>>
    /\ t.pc = "idle" <=> t.idx > NumRecipients
    /\ t.pc = "idle" => t.outcome = "returned"

C10_OneResultPerRecipient ==
    \A k \in Callers :
        task[k].op = "sms" =>
            /\ SmsResultsInOrder(task[k])
            /\ task[k].pc = "await" => Tracked(task[k].cmd)

\* C11: one call of reconnect() makes at most MAX_RECONNECT_ATTEMPTS attempts
\* (turns of its loop: open the port, send the init commands) and then ends
\* with a failure, also when the port reopens and the init commands fail.
C11_BoundedReconnect ==
    \A t \in Tasks : task[t].turns <= MAX_RECONNECT_ATTEMPTS

\* C12: at most one reconnect loop is active at any time: a reconnect request
\* made while a reconnect is in progress never starts a second open/initialize
\* sequence.
InReconnect(t) == task[t].pc \in {"r_open", "r_settle", "r_init", "r_backoff"}

C12_OneReconnectLoop ==
    Cardinality({t \in Tasks : InReconnect(t)}) <= 1

\* C13: a submission made while a reconnect is in progress waits at most
\* MaxWaitCount polls.  At a poll it proceeds (the command is added to the
\* queue, or written) only if the port is open; if the port is not open it
\* goes on waiting while the reconnect runs and polls are left, and otherwise
\* fails with "Serial port reconnection timeout" and neither adds nor writes
\* its command.
ReconnectionTimeout == <<"Serial port reconnection timeout">>

Proceeded(t) ==
    IF task[t].ctx = "submit"
    THEN /\ task'[t].pc = "await"
         /\ \/ \E i \in 1..Len(queue') : queue'[i] = task'[t].cmd
            \/ currentCommand' = task'[t].cmd
    ELSE task'[t].pc \in {"x_resp", "x_ack"}

FailedWith(t, error) ==
    /\ task'[t].pc # "poll"
    /\ wire' = wire
    /\ queue' = queue \/ (t \in Drains /\ queue' # <<>> /\ Tail(queue') = queue)
    /\ (t \in Callers /\ task[t].op = "sms") =>
           /\ Len(task'[t].results) > Len(task[t].results)
           /\ task'[t].results[task[t].idx] =
                  [recipient |-> task[t].idx, success |-> FALSE,
                   error |-> error]
    /\ (t \in Callers /\ task[t].op # "sms") => task'[t].outcome = "threw"
    /\ (t \in Drains /\ currentCommand = task[t].cmd /\ Pending(task[t].cmd)) =>
           \/ cmds'[task[t].cmd].retries = cmds[task[t].cmd].retries + 1
           \/ /\ cmds'[task[t].cmd].promise = "rejected"
              /\ cmds'[task[t].cmd].result = error

C13_BoundedWait ==
    [][\A t \in Tasks :
          /\ task[t].pc = "poll" => task[t].waitCount < MaxWaitCount
          /\ PollTick(t) =>
                 IF portExists /\ portOpen
                 THEN Proceeded(t)
                 ELSE IF isReconnecting /\ task[t].waitCount + 1 < MaxWaitCount
                 THEN /\ task'[t].pc = "poll"
                      /\ task'[t].waitCount = task[t].waitCount + 1
                 ELSE FailedWith(t, ReconnectionTimeout)]_vars

\* A sendToAll that waited for a reconnect has recorded the reconnection
\* timeout for a recipient.
C13_Witness ==
    \E k \in Callers :
        /\ task[k].op = "sms"
        /\ \E i \in 1..Len(task[k].results) :
               task[k].results[i].error = ReconnectionTimeout

\* C14: the queue never stalls: while the queue is not empty a drain is alive
\* to take the next command, and every command that was added and is not yet
\* resolved, rejected or cleared is queued or is the command a live drain
\* will settle when its executor call ends.
C14_NeverStalls ==
    /\ queue # <<>> => \E d \in Drains : Alive(d)
    /\ \A c \in CmdIds :
           Pending(c) =>
               \/ InQueue(c)
               \/ \E d \in Drains : Alive(d) /\ currentCommand = c

\* C15: no public operation blocks forever: a caller suspended in sendToAll,
\* performConnectionTest or initialize waits for something that will come.  A
\* caller that awaits the promise of a queued command awaits a command the
\* queue can still settle, and a caller that awaits the response to the SMS
\* body has a live timeout.
C15_NoOperationBlocks ==
    \A k \in Callers :
        /\ task[k].pc = "await" =>
               /\ Pending(task[k].cmd)
               /\ Tracked(task[k].cmd)
        /\ task[k].pc = "x_resp" => timer[k]

\* C16: getDiagnostics() returns a copy, never a live reference: nothing a
\* caller does to the value it got, or to the objects nested in it, changes
\* what a reader of the engine's diagnostics sees.
C16_SnapshotIsCopy ==
    [][(\/ \E f \in {"pinStatus", "currentOperator"} : MutateSnapshot(f)
        \/ \E f \in ObjectFields, g \in {"n", "stat", "rssi", "ber"} :
               MutateNested(f, g))
          => Deref(diagnostics)' = Deref(diagnostics)]_vars

\* C17: diagnostics are sticky.  A probe response that does not parse leaves
\* every field of the record as it was; one that parses changes only the
\* fields of its probe; no field is ever removed.
ProbeFields ==
    <<{"pinStatus", "pinStatusDescription"},
      {"messageFormat", "messageFormatDescription"},
      {"networkRegistration", "networkRegistrationDescription",
       "networkStatusDescription"},
      {"signalQuality", "rssiValue", "signalStrengthDescription",
       "signalQualityDescription"},
      {"serviceCenterAddress"},
      {"currentOperator", "accessTechnology", "accessTechnologyDescription"}>>

Parses(i, response) ==
    CASE i = 1 -> parseCPIN(response).matched
      [] i = 2 -> parseCMGF(response).matched
      [] i = 3 -> parseCREG(response).matched
      [] i = 4 -> parseCSQ(response).matched
      [] i = 5 -> parseCSCA(response).matched
      [] i = 6 -> parseCOPS(response).matched

C17_StickyDiagnostics ==
    [][\A i \in 1..Len(Probes), response \in Responses :
          ProbeResponse(i, response) =>
              /\ DOMAIN diagnostics \subseteq DOMAIN diagnostics'
              /\ \A f \in DOMAIN diagnostics :
                     (Parses(i, response) => f \notin ProbeFields[i])
                         => Deref(diagnostics)'[f] = Deref(diagnostics)[f]
              /\ DOMAIN diagnostics' \ DOMAIN diagnostics \subseteq
                     IF Parses(i, response) THEN ProbeFields[i] ELSE {}]_vars

\* Three probe responses have come; the record holds the fields of the PIN
\* and of the service center address, and no others.
C17_Witness ==
    /\ ~held
    /\ diagSteps = 3
    /\ DOMAIN diagnostics = ProbeFields[1] \cup ProbeFields[5]
    /\ diagnostics["pinStatus"] = "SIM PIN"

\* C18: the error tokens take precedence over the expected token: a line that
\* includes ERROR or FAIL and also the expected token of the command in flight
\* rejects that command and never resolves it.  The queue's command is retried
\* or rejected, the SMS body is recorded as failed, the reconnect attempt ends.
C18_ErrorBeforeToken ==
    [][\A l \in Lines :
          (/\ Line(l)
           /\ l.hasError
           /\ pendingCommand # NULL
           /\ Includes(l, ExpectedOf(S, pendingCommand))) =>
              LET p == pendingCommand
                  x == task[p].cmd
              IN  /\ pendingCommand' = NULL
                  /\ ~timer'[p]
                  /\ (p \in Drains /\ task[p].pc = "x_resp"
                          /\ currentCommand = x /\ Pending(x)) =>
                         /\ cmds'[x].promise # "resolved"
                         /\ \/ cmds'[x].retries = cmds[x].retries + 1
                            \/ cmds'[x].promise = "rejected"
                  /\ (p \in Callers /\ task[p].pc = "x_resp") =>
                         ~task'[p].results[task[p].idx].success
                  /\ task[p].pc = "r_init" =>
                         /\ task'[p].pc # "r_init"
                         /\ isReady' = isReady]_vars

\* The line "ERROR: NOT OK" has come for a command that expects "OK": the
\* command is back at the head of the queue for its retry.
C18_Witness ==
    /\ pendingCommand = NULL
    /\ responseBuffer # <<>>
    /\ responseBuffer[Len(responseBuffer)] = ErrorOkLine.text
    /\ queue # <<>>
    /\ cmds[Head(queue)].retries = 1
    /\ cmds[Head(queue)].expectedResponse = "OK"
    /\ cmds[Head(queue)].promise = "pending"

\* C19: when the timeout of a written command fires (no line with its
\* expected token and no ERROR/FAIL line came for it), that execution is
\* rejected with the timeout error and no expectation is left for it: the
\* correlator is idle unless the rejection's continuation wrote the next
\* command at once.  A line that comes while the correlator is idle settles
\* nothing, and no line settles an execution whose expectation is gone.
CommandTimeout == <<"Command timeout">>

WriteFailed == <<"Failed to write command">>

C20_NoResponseCommand ==
    [][\A d \in Drains :
          LET x == task[d].cmd
              mine == /\ task[d].pc = "x_ack"
                      /\ currentCommand = x
                      /\ Pending(x)
          IN  /\ (/\ task[d].pc \in {"x_ack", "x_resp"}
                  /\ x # NULL
                  /\ cmds[x].expectedResponse = "null") =>
                     /\ task[d].pc = "x_ack"
                     /\ ~timer[d]
                     /\ pendingCommand # d
              /\ (task[d].pc # "x_ack" /\ task'[d].pc = "x_ack") =>
                     /\ wire'.command = cmds'[task'[d].cmd].command
                     /\ responseBuffer' = <<>>
              /\ (WriteAck(d) /\ mine) =>
                     /\ cmds'[x].promise = "resolved"
                     /\ cmds'[x].result = <<>>
                     /\ cmds'[x].retries = cmds[x].retries
              /\ (WriteError(d) /\ mine) =>
                     /\ cmds'[x].promise # "resolved"
                     /\ \/ /\ cmds'[x].retries = cmds[x].retries + 1
                           /\ queue' = <<x>> \o queue
                        \/ /\ cmds'[x].promise = "rejected"
                           /\ cmds'[x].result = WriteFailed]_vars

\* The write of AT+CMGS (sent with no expected response) was acknowledged:
\* the command is resolved and sendSMS waits before it sends the body.
C20_Witness ==
    \E k \in Callers :
        /\ task[k].op = "sms"
        /\ task[k].pc = "settle"
        /\ pendingCommand = NULL
        /\ \A t \in Tasks : ~timer[t]
        /\ wire.kind = "queue"
        /\ wire.command \notin {"AT", "AT+CPIN?"}

C22_RetryPolicy ==
    [][/\ \A d \in Drains :
             QExecFail(d) =>
                 LET x == task[d].cmd
                 IN  IF cmds[x].retries < maxRetries
                     THEN /\ cmds'[x].promise = "pending"
                          /\ cmds'[x].retries = cmds[x].retries + 1
                          /\ queue' = <<x>> \o queue
                     ELSE /\ cmds'[x].promise = "rejected"
                          /\ cmds'[x].result = <<"Command timeout">>
                          /\ queue' = queue
       /\ \A c \in CmdIds :
             /\ cmds'[c].retries <= maxRetries
             /\ cmds'[c].executions <= maxRetries + 1]_vars

\* C23: a transient failure (write error, timeout, ERROR/FAIL line) of a
\* command written to the modem is surfaced only after maxRetries retries.  A
\* queued command that fails with retries left stays pending; a failure of
\* the SMS body, which has not been retried, does not yet report the recipient
\* as failed.
TransientFailure(t) ==
    \/ Timeout(t)
    \/ WriteError(t)
    \/ \E l \in Lines : l.hasError /\ pendingCommand = t /\ Line(l)

C23_RetriedBeforeSurfaced ==
    [][/\ \A d \in Drains :
             (/\ TransientFailure(d)
              /\ task[d].pc \in {"x_resp", "x_ack"}
              /\ currentCommand = task[d].cmd
              /\ Pending(task[d].cmd)
              /\ cmds[task[d].cmd].retries < maxRetries) =>
                 cmds'[task[d].cmd].promise = "pending"
       /\ \A k \in Callers :
             (TransientFailure(k) /\ task[k].pc = "x_resp" /\ maxRetries > 0) =>
                 Len(task'[k].results) = Len(task[k].results)]_vars

\* C24: commands are dispatched in the order of their sendCommand calls: when
\* a caller's command is handed to the executor for the first time, no caller
\* whose sendCommand was called earlier still waits for the dispatch of its
\* command.
C24_DispatchInSubmissionOrder ==
    [][\A c \in CmdIds :
          (cmds[c].executions = 0 /\ cmds'[c].executions > 0
               /\ cmds'[c].owner \in Callers) =>
              task'[cmds'[c].owner].behind = {}]_vars

\* C25: when a reconnect has used up its attempts, the caller whose
\* sendCommand started it gets the failure as the failure of its command, and
\* the engine is left closed: not ready and not reconnecting.  The queue's
\* drains never run a reconnect, so the retry policy does not run it again.
ReconnectFailed == <<"Failed to reconnect serial port">>

ReconnectPcs == {"r_open", "r_settle", "r_init", "r_backoff"}

Exhausted(k) ==
    /\ task[k].pc \in ReconnectPcs
    /\ task[k].ctx = "submit"
    /\ IF task[k].op = "sms"
       THEN /\ Len(task'[k].results) > Len(task[k].results)
            /\ task'[k].results[task[k].idx].error = ReconnectFailed
       ELSE /\ task'[k].pc = "idle"
            /\ task'[k].outcome = "threw"
            /\ task'[k].error = ReconnectFailed

C25_ExhaustedIsFatal ==
    [][/\ \A k \in Callers :
             Exhausted(k) => (~isReady' /\ ~isReconnecting')
       /\ \A d \in Drains : task'[d].pc \notin ReconnectPcs \cup {"poll"}]_vars

\* C26: isReady becomes true only in the step in which the last command of
\* the sequence is resolved by a line, with the port open: the last init
\* command of reconnect, or the last test of initialize.  The init commands
\* go out in their order, each written when the one before it was resolved
\* by a line; a command that fails does not make the engine ready.
LastOfInitialize == Len(InitCommands) + Len(Probes)

ResolvingLine(p) ==
    \E l \in Lines :
        /\ ~l.hasError
        /\ pendingCommand = p
        /\ Includes(l, ExpectedOf(S, p))
        /\ Line(l) \/ LateLine(l)

C26_ReadyAfterInit ==
    [][/\ (isReady' /\ ~isReady) =>
              /\ portExists' /\ portOpen'
              /\ \E p \in Tasks :
                     /\ ResolvingLine(p)
                     /\ \/ /\ task[p].pc = "r_init"
                           /\ task[p].step = Len(InitCommands)
                        \/ /\ p \in Drains
                           /\ task[p].pc = "x_resp"
                           /\ \E k \in Callers :
                                  /\ task[k].op = "init"
                                  /\ task[k].pc = "await"
                                  /\ task[k].cmd = currentCommand
                                  /\ task[k].idx = LastOfInitialize
       /\ \A t \in Tasks :
              /\ (task[t].pc # "r_init" /\ task'[t].pc = "r_init") =>
                     /\ task'[t].step = 1
                     /\ wire'.command = InitCommands[1]
              /\ (task[t].pc = "r_init" /\ task'[t].pc = "r_init"
                      /\ task'[t].step # task[t].step) =>
                     /\ ResolvingLine(t)
                     /\ task'[t].step = task[t].step + 1
                     /\ wire'.command = InitCommands[task'[t].step]
                     /\ pendingCommand' = t
       /\ \A k \in Callers :
              (task[k].op = "init" /\ task'[k].op = "init"
                   /\ task'[k].idx # task[k].idx) =>
                  /\ task'[k].idx = task[k].idx + 1
                  /\ task[k].pc = "await"
                  /\ cmds'[task[k].cmd].promise = "resolved"
                  /\ \E d \in Drains : ResolvingLine(d)]_vars

\* The link was lost after initialize() and reconnect has made the engine
\* ready again with its five init commands.
C26_Witness ==
    /\ isReady
    /\ lifecycle = "initialized"
    /\ faults = 1
    /\ ~linkLost
    /\ wire.command = InitCommands[Len(InitCommands)]
    /\ wire.kind = "init"

\* C27: the SMS workflow of a recipient.  AT+CMGS="<recipient>" goes through
\* the queue, is written with CRLF and expects no response; sendSMS reaches
\* its settle delay only when that command was resolved by the write's
\* acknowledgement.  The body is written after the delay only, as the message
\* and the byte 0x1A with no CRLF, expecting OK.  The recipient is recorded as
\* successful only when a line with OK resolves the body.
InBodyCall(k) ==
    \/ task[k].pc = "settle"
    \/ task[k].ctx = "exec"

NotReadyOnOpenPort ==
    /\ lifecycle = "initialized"
    /\ portExists /\ portOpen
    /\ ~isReady
    /\ ~isReconnecting
    /\ ~linkLost
    /\ \A t \in Tasks : task[t].pc \notin ReconnectPcs

C28_ErrorRecovers ==
    [][\A k \in Callers :
          (NotReadyOnOpenPort /\ (StartConnectionTest(k) \/ StartSendToAll(k)))
              => (isReconnecting' \/ isReady')]_vars

\* ATCommandQueue.getStatus(); a value that may be null is a sequence of at
\* most one element.
QueueGetStatus(s) ==
    [queueSize |-> Len(s.queue),
     processing |-> s.processing,
     currentCommand |->
         IF s.currentCommand # NULL
         THEN <<s.cmds[s.currentCommand].command>>
         ELSE <<>>]

\* GSMModule.getStatus()
getStatus(s) ==
    [isReady |-> s.isReady,
     portOpen |-> IF s.portExists THEN s.portOpen ELSE FALSE,
     queueStatus |-> QueueGetStatus(s)]

\* The commands that wait to be dispatched: pending and not handed to an
\* executor call that has not settled.
Waiting ==
    {c \in CmdIds :
        Pending(c) /\ ~\E d \in Drains : Executing(d) /\ task[d].cmd = c}

\* C29: while a command handed to the executor has not settled, getStatus()
\* reports processing = true and that command as the command in flight, and
\* its queueSize is the number of the commands that wait to be dispatched.
C29_StatusConsistent ==
    LET status == getStatus(S).queueStatus
    IN  /\ \A d \in Drains :
               Executing(d) =>
                   /\ status.processing
                   /\ status.currentCommand = <<cmds[task[d].cmd].command>>
        /\ status.queueSize = Cardinality(Waiting)

\* The descriptions of the registration states 0..5.
RegistrationStates ==
    [stat \in 0..5 |->
        CASE stat = 0 -> "Not registered, not searching"
          [] stat = 1 -> "Registered (home network)"
          [] stat = 2 -> "Not registered, searching"
          [] stat = 3 -> "Registration denied"
          [] stat = 4 -> "Unknown"
          [] stat = 5 -> "Registered (roaming)"]

\* C30: a response +CREG: <n>,<stat> to the probe AT+CREG? is accepted only
\* with stat in 0..5, and then the status description is the one of that
\* state; with any other stat nothing is produced: the diagnostics record and
\* the objects it refers to stay as they were.
C30_RegistrationInRange ==
    [][\A i \in 1..Len(Probes), response \in Responses :
          (/\ ProbeResponse(i, response)
           /\ CommandIncludes(Probes[i].command, "+CREG?")
           /\ response.tag = "+CREG:"
           /\ Len(response.nums) >= 2) =>
              IF response.nums[2] \in DOMAIN RegistrationStates
              THEN /\ Has(diagnostics', "networkRegistration")
                   /\ heap'[diagnostics'["networkRegistration"]].stat =
                          response.nums[2]
                   /\ diagnostics'["networkStatusDescription"] =
                          RegistrationStates[response.nums[2]]
              ELSE /\ diagnostics' = diagnostics
                   /\ heap' = heap]_vars

\* C31: for rssi in 0..31 and 99 the signal strength is Unknown for 99,
\* Excellent from 20, Good from 15, Fair from 10, Poor from 5 and Very Poor
\* below, and the dBm text is -113 + 2 * rssi between the two ends, "-113 dBm
\* or less" for 0, "-51 dBm or greater" for 31 and unknown for 99; for ber in
\* 0..7 the quality is the ladder from Excellent to Extremely Bad, and Unknown
\* for 99.
C31_SignalScales ==
    [][\A rssi \in RssiValues, ber \in BerValues :
          (/\ heap' = Append(heap, [rssi |-> rssi, ber |-> ber])
           /\ SignalProbe(rssi, ber)) =>
              /\ diagnostics'["signalStrengthDescription"] =
                     CASE rssi = 99 -> "Unknown"
                       [] rssi \in 20..31 -> "Excellent"
                       [] rssi \in 15..19 -> "Good"
                       [] rssi \in 10..14 -> "Fair"
                       [] rssi \in 5..9 -> "Poor"
                       [] rssi \in 0..4 -> "Very Poor"
              /\ diagnostics'["rssiValue"] =
                     CASE rssi = 99 -> "Unknown or not detectable"
                       [] rssi = 0 -> "-113 dBm or less"
                       [] rssi = 31 -> "-51 dBm or greater"
                       [] rssi \in 1..30 ->
                              ToString(-113 + 2 * rssi) \o " dBm"
              /\ diagnostics'["signalQualityDescription"] =
                     CASE ber = 99 -> "Unknown"
                       [] ber = 0 -> "Excellent (< 0.2%)"
                       [] ber = 1 -> "Good (0.2% - 0.4%)"
                       [] ber = 2 -> "Fair (0.4% - 0.8%)"
                       [] ber = 3 -> "Poor (0.8% - 1.6%)"
                       [] ber = 4 -> "Very Poor (1.6% - 3.2%)"
                       [] ber = 5 -> "Bad (3.2% - 6.4%)"
                       [] ber = 6 -> "Very Bad (6.4% - 12.8%)"
                       [] ber = 7 -> "Extremely Bad (> 12.8%)"]_vars

\* The response +CSQ: 10,7 has been parsed: the lowest Fair, -93 dBm.
C31_Witness ==
    /\ Has(diagnostics, "signalQuality")
    /\ heap[diagnostics["signalQuality"]] = [rssi |-> 10, ber |-> 7]
    /\ diagnostics["signalStrengthDescription"] = "Fair"
    /\ diagnostics["rssiValue"] = "-93 dBm"
    /\ diagnostics["signalQualityDescription"] = "Extremely Bad (> 12.8%)"

\* C32: once initialize has registered the handlers, the LED state is a
\* function of the alert state: SolidOn exactly when alertsDisabled, else
\* FastBlink with an active trigger and SlowFlash with none.
C32_LedShowsAlertState ==
    panel.phase = "running" =>
        panel.currentLedState =
            IF panel.alertsDisabled THEN "SolidOn"
            ELSE IF panel.activeTriggers # {} THEN "FastBlink"
            ELSE "SlowFlash"

\* Switch 1 was pressed and a trigger rose meanwhile; after the release the
\* LED blinks fast.
C32_Witness ==
    /\ panel.phase = "running"
    /\ ~panel.alertsDisabled
    /\ world.releasedAt > world.startedAt
    /\ panel.lastAlertTime = world.releasedAt
    /\ panel.alertCalls = 0
    /\ panel.activeTriggers = {"trigger2"}
    /\ panel.currentLedState = "FastBlink"

\* The calls of the two handlers of switch 2 so far.
Switch2Actions(p) == p.shortPresses + p.longPresses

\* C33: a press-and-release of switch 2 (from a 'pressed' event to the next
\* 'released' event, with the handlers registered) calls exactly one handler:
\* the short-press handler at the release when it comes before the threshold,
\* the long-press handler when the switch has been down for the threshold;
\* the long-press handler is called only while the switch is down and has
\* been down for the threshold, and no handler is called while it is up.
C33_OneActionPerPress ==
    [][/\ panel'.longPresses # panel.longPresses =>
              /\ world.switch2Down
              /\ world.now - world.switch2Since >= LONG_PRESS_THRESHOLD_MS
       /\ (world.switch2Down /\ ~world'.switch2Down /\ world.switch2Handled) =>
              /\ Switch2Actions(panel') = world.switch2Before + 1
              /\ panel'.shortPresses =
                     IF world.now - world.switch2Since < LONG_PRESS_THRESHOLD_MS
                     THEN panel.shortPresses + 1
                     ELSE panel.shortPresses
       /\ (~world.switch2Down /\ ~world'.switch2Down) =>
              Switch2Actions(panel') = Switch2Actions(panel)]_vars

\* C34: handleTrigger calls sendToAll only while switch 1 is not pressed and
\* when at least smsCooldownPeriod has passed since initialize, since the
\* last release of switch 1 and since the previous alert: one call at a time,
\* no two of them less than smsCooldownPeriod apart.
C34_AlertsRateLimited ==
    [][panel'.alertCalls # panel.alertCalls =>
           /\ panel'.alertCalls = panel.alertCalls + 1
           /\ world.switch1 = 1
           /\ world.now - world.startedAt >= smsCooldownPeriod
           /\ world.releasedAt # 0 =>
                  world.now - world.releasedAt >= smsCooldownPeriod
           /\ world.alertAt # 0 =>
                  world.now - world.alertAt >= smsCooldownPeriod]_vars

\* C35: the timeout (or the failed write) of a command clears only that
\* command's own expectation: when pendingCommand holds the expectation of
\* another command, it still holds it afterwards.
C35_TimerClearsOwnExpectation ==
    [][\A t \in Tasks :
          (/\ Timeout(t) \/ WriteError(t)
           /\ pendingCommand # NULL
           /\ pendingCommand # t) =>
              pendingCommand' = pendingCommand]_vars

\* C36: a line that is the late response to a command that has timed out
\* neither resolves nor rejects the command in flight when it arrives: that
\* command keeps its expectation and its timer.
C36_LateLineSettlesNothing ==
    [][\A l \in Lines :
          LateLine(l) =>
              /\ pendingCommand' = pendingCommand
              /\ timer'[pendingCommand]]_vars

\* C37: when sendSMS writes the body of a recipient, the last write to the
\* port before it is the AT+CMGS of that recipient: no other command was
\* written in between.
C37_BodyFollowsItsCommand ==
    [][\A k \in Callers :
          (/\ task[k].pc # "x_resp"
           /\ task'[k].pc = "x_resp"
           /\ wire'.kind = "body") =>
              /\ wire.kind = "queue"
              /\ wire.command = CmgsCommand(task[k].idx)]_vars

\* C38: isReady implies that the port is open.  A close event, an error event
\* and close() leave isReady false; isReady becomes true only in the step
\* that ends initialize() with success or that resolves the last init command
\* of a reconnect.
C38_ReadyImpliesOpen ==
    [][/\ isReady' => (portExists' /\ portOpen')
       /\ (PortClose \/ PortError) => ~isReady'
       /\ \A k \in Callers : StartClose(k) => (~isReady' /\ ~portOpen')
       /\ (isReady' /\ ~isReady) =>
              \/ \E k \in Callers :
                     /\ task[k].op = "init"
                     /\ task[k].pc = "await"
                     /\ task'[k].outcome = "returned"
              \/ \E t \in Tasks :
                     /\ task[t].pc = "r_init"
                     /\ task[t].step = Len(InitCommands)
                     /\ task'[t].pc # "r_init"
                     /\ ~isReconnecting']_vars

\* close() has returned on an engine that was initialized: not ready, the
\* port closed.
C38_Witness ==
    \E k \in Callers :
        /\ task[k].op = "close"
        /\ task[k].outcome = "returned"
        /\ lifecycle = "initialized"
        /\ faults = 0
        /\ ~isReady
        /\ portExists /\ ~portOpen
\* C39: sendSMS called while the engine is not ready throws "GSM module not
\* ready" before anything else: nothing is written to the port, no command is
\* created or queued, no reconnect starts. A sendToAll called in that state
\* returns in the same turn with success false and that error for every
\* recipient; and whenever a result with that error is recorded, the engine is
\* not ready and the turn wrote nothing for that caller.
NotReadyResults ==
    [i \in 1..NumRecipients |->
        [recipient |-> i, success |-> FALSE,
         error |-> <<"GSM module not ready">>]]

C39_NotReadyFailsEveryRecipient ==
    [][\A k \in Callers :
          /\ (StartSendToAll(k) /\ ~isReady) =>
                 /\ task'[k].results = NotReadyResults
                 /\ task'[k].outcome = "returned"
                 /\ wire' = wire
                 /\ queue' = queue
                 /\ nextCmd' = nextCmd
                 /\ pendingCommand' = pendingCommand
                 /\ isReconnecting' = isReconnecting
                 /\ \A t \in Tasks : task'[t].pc \in ReconnectPcs
                                         => task[t].pc \in ReconnectPcs
          /\ \A i \in 1..NumRecipients :
                 (/\ task'[k].op = "sms"
                  /\ Len(task'[k].results) >= i
                  /\ Len(task[k].results) < i \/ StartSendToAll(k)
                  /\ task'[k].results[i].error = <<"GSM module not ready">>)
                     => /\ ~isReady'
                        /\ ~task'[k].results[i].success
                        /\ wire' = wire
                        /\ nextCmd' = nextCmd]_vars

C39_Witness ==
    \E k \in Callers :
        /\ task[k].op = "sms"
        /\ task[k].outcome = "returned"
        /\ task[k].results = NotReadyResults
        /\ ~isReady
        /\ lifecycle = "initialized"

====
